---------------------------- MODULE Spec2Model ----------------------------
(***************************************************************************)
(* Constraint-evaluation code generation of Triton VM.                     *)
(*                                                                         *)
(* The native backend (constraint-evaluation-generator/src/main.rs) and    *)
(* the assembly backend (codegen/tasm.rs) are translated as operators that *)
(* build the emitted artefacts; the emitted assembly is then executed,     *)
(* instruction by instruction, on a model of the stack machine, and the    *)
(* emitted native code is interpreted, as the property tests of            *)
(* triton-vm/src/air.rs do.                                                *)
(***************************************************************************)
EXTENDS Integers, Sequences, FiniteSets, TLC

(***************************************************************************)
(* Bounds of the model.                                                    *)
(***************************************************************************)
\* longest bucket the free (initial) bucket ranges over
MaxLen == 2
\* modulus of the scaled-down base field (the repository's is 2^64 - 2^32 + 1)
FieldModulus == 5
\* log2 of the scratch page's size in words (the repository's page has 2^32)
Log2MemPageSize == 7
\* log2 of the words reserved for the output array (the repository's: 16)
Log2OutWords == 5
\* widths of the rows and of the challenge vector
NumBaseColumns == 2
NumExtColumns == 2
NumChallenges == 2
\* the evaluation points are numbered 0..MaxSeed
MaxSeed == 1
\* the largest target degree of the degree lowering (the repository's is 4)
MaxTargetDegree == 3
\* the largest width of a degree-lowering table found on disk
MaxWidthOnDisk == 1

\* the width of usize is 2^Log2UsizeBits bits; the repository's targets have 2^6
Log2UsizeBits == 2

\* the longest proof stream
MaxItems == 3

\* the most rows of a table the fill code is run on
MaxRows == 3

\* the longest bucket handed to one call of tokenize_circuits
MaxCallLen == 3

EXTENSION_DEGREE == 3

RECURSIVE Pow2(_)
Pow2(n) == IF n = 0 THEN 1 ELSE 2 * Pow2(n - 1)

MEM_PAGE_SIZE == Pow2(Log2MemPageSize)

\* the start of the to-be-returned array, in extension-field elements
OutArrayOffsetInWords == MEM_PAGE_SIZE - Pow2(Log2OutWords)
\* the offset left in words
OUT_ARRAY_OFFSET_in_words == OutArrayOffsetInWords

OUT_ARRAY_OFFSET == OutArrayOffsetInWords \div EXTENSION_DEGREE

(***************************************************************************)
(* Field arithmetic: extension-field elements are triples of coefficients, *)
(* <<c0, c1, c2>>, of the cubic extension modulo X^3 - X + 1.              *)
(***************************************************************************)
BFE == 0 .. (FieldModulus - 1)

Norm(x) == x % FieldModulus

XAdd(a, b) == <<Norm(a[1] + b[1]), Norm(a[2] + b[2]), Norm(a[3] + b[3])>>

XMul(a, b) ==
    LET t3 == a[2] * b[3] + a[3] * b[2]
        t4 == a[3] * b[3]
    IN  << Norm(a[1] * b[1] - t3),
           Norm(a[1] * b[2] + a[2] * b[1] + t3 - t4),
           Norm(a[1] * b[3] + a[2] * b[2] + a[3] * b[1] + t4) >>

XSub(a, b) == <<Norm(a[1] - b[1]), Norm(a[2] - b[2]), Norm(a[3] - b[3])>>

Lift(b) == <<Norm(b), 0, 0>>

(***************************************************************************)
(* Circuits.  A node is a record; a builder's nodes form an arena indexed  *)
(* by the node's handle, and every builder numbers its nodes from 0.       *)
(***************************************************************************)
InputNode(i, cur, base, col) ==
    [id |-> i, kind |-> "Input", op |-> "none", lhs |-> 0, rhs |-> 0,
     cur |-> cur, base |-> base, idx |-> col, xfe |-> <<0, 0, 0>>]

ChallengeNode(i, c) ==
    [id |-> i, kind |-> "Challenge", op |-> "none", lhs |-> 0, rhs |-> 0,
     cur |-> TRUE, base |-> FALSE, idx |-> c, xfe |-> <<0, 0, 0>>]

BConstantNode(i, b) ==
    [id |-> i, kind |-> "BConstant", op |-> "none", lhs |-> 0, rhs |-> 0,
     cur |-> TRUE, base |-> TRUE, idx |-> 0, xfe |-> Lift(b)]

XConstantNode(i, x) ==
    [id |-> i, kind |-> "XConstant", op |-> "none", lhs |-> 0, rhs |-> 0,
     cur |-> TRUE, base |-> FALSE, idx |-> 0, xfe |-> x]

BinOpNode(i, op, l, r) ==
    [id |-> i, kind |-> "BinaryOperation", op |-> op, lhs |-> l, rhs |-> r,
     cur |-> TRUE, base |-> FALSE, idx |-> 0, xfe |-> <<0, 0, 0>>]

\* the single-row builder's nodes (initial, consistency and terminal buckets)
SingleRowArena ==
    [h \in 0 .. 10 |->
       CASE h = 0 -> InputNode(0, TRUE, TRUE, 0)
         [] h = 1 -> InputNode(1, TRUE, TRUE, 1)
         [] h = 2 -> InputNode(2, TRUE, FALSE, 0)
         [] h = 3 -> ChallengeNode(3, 1)
         [] h = 4 -> BConstantNode(4, 3)
         [] h = 5 -> BinOpNode(5, "Add", 0, 1)
         [] h = 6 -> BinOpNode(6, "Mul", 5, 5)
         [] h = 7 -> BinOpNode(7, "Mul", 5, 2)
         [] h = 8 -> BinOpNode(8, "Add", 6, 3)
         [] h = 9 -> BinOpNode(9, "Mul", 0, 4)
         [] OTHER -> BinOpNode(10, "Add", 9, 9)]

\* the dual-row builder's nodes (transition bucket): the same ids, other nodes
DualRowArena ==
    [h \in 0 .. 8 |->
       CASE h = 0 -> InputNode(0, TRUE, TRUE, 1)
         [] h = 1 -> InputNode(1, FALSE, TRUE, 0)
         [] h = 2 -> InputNode(2, FALSE, FALSE, 1)
         [] h = 3 -> ChallengeNode(3, 0)
         [] h = 4 -> XConstantNode(4, <<1, 2, 0>>)
         [] h = 5 -> BinOpNode(5, "Mul", 0, 1)
         [] h = 6 -> BinOpNode(6, "Add", 5, 2)
         [] h = 7 -> BinOpNode(7, "Mul", 6, 4)
         [] OTHER -> BinOpNode(8, "Add", 7, 6)]

Buckets == <<"init", "cons", "tran", "term">>

ArenaOf(b) == IF b = "tran" THEN DualRowArena ELSE SingleRowArena


(***************************************************************************)
(* Helpers on sequences.                                                   *)
(***************************************************************************)
RECURSIVE Flatten(_)
Flatten(ss) == IF ss = <<>> THEN <<>> ELSE Head(ss) \o Flatten(Tail(ss))

RECURSIVE SumLens(_)
SumLens(ss) == IF ss = <<>> THEN 0 ELSE Len(Head(ss)) + SumLens(Tail(ss))

Max(S) == CHOOSE x \in S : \A y \in S : y <= x

\* the elements of a finite set of integers, largest first
RECURSIVE Descending(_)
Descending(S) ==
    IF S = {} THEN <<>> ELSE <<Max(S)>> \o Descending(S \ {Max(S)})

(***************************************************************************)
(* ConstraintCircuit, the part the backends use.                           *)
(***************************************************************************)
\* the handles of the nodes of the circuit rooted at h
RECURSIVE Subtree(_, _)
Subtree(A, h) ==
    IF A[h].kind = "BinaryOperation"
    THEN {h} \cup Subtree(A, A[h].lhs) \cup Subtree(A, A[h].rhs)
    ELSE {h}

\* reset_ref_count_for_tree: the counters before the walk
reset_ref_count(A) == [h \in DOMAIN A |-> 0]

\* the walk of one circuit: every arrival at a node counts, and only the
\* first arrival at a node walks on into its children
RECURSIVE assert_has_unique_ids_inner(_, _, _)
assert_has_unique_ids_inner(A, rc, h) ==
    LET counted == [rc EXCEPT ![h] = @ + 1]
    IN  IF counted[h] > 1 THEN counted
        ELSE IF A[h].kind # "BinaryOperation" THEN counted
        ELSE assert_has_unique_ids_inner(
                 A, assert_has_unique_ids_inner(A, counted, A[h].lhs), A[h].rhs)

RECURSIVE WalkAll(_, _, _)
WalkAll(A, rc, constraints) ==
    IF constraints = <<>> THEN rc
    ELSE WalkAll(A, assert_has_unique_ids_inner(A, rc, Head(constraints)),
                 Tail(constraints))

\* every node's counter after the walk over all circuits of one bucket
ref_count(A, constraints) == WalkAll(A, reset_ref_count(A), constraints)

\* the counters found in the circuits of the bucket
all_ref_counters(A, constraints) ==
    LET rc == ref_count(A, constraints)
    IN  {rc[h] : h \in UNION {Subtree(A, constraints[i]) : i \in DOMAIN constraints}}

\* assert_has_unique_ids panics when two distinct nodes of the bucket share an id
has_unique_ids(A, constraints) ==
    LET nodes == UNION {Subtree(A, constraints[i]) : i \in DOMAIN constraints}
    IN  \A g, h \in nodes : A[g].id = A[h].id => g = h

RECURSIVE evaluates_to_base_element(_, _)
evaluates_to_base_element(A, h) ==
    CASE A[h].kind = "BConstant" -> TRUE
      [] A[h].kind = "XConstant" -> FALSE
      [] A[h].kind = "Input" -> A[h].base
      [] A[h].kind = "Challenge" -> FALSE
      [] OTHER -> evaluates_to_base_element(A, A[h].lhs)
                  /\ evaluates_to_base_element(A, A[h].rhs)

RECURSIVE degree(_, _)
degree(A, h) ==
    CASE A[h].kind \in {"BConstant", "XConstant"} -> 0
      [] A[h].kind \in {"Input", "Challenge"} -> 1
      [] A[h].op = "Mul" -> degree(A, A[h].lhs) + degree(A, A[h].rhs)
      [] OTHER -> IF degree(A, A[h].lhs) >= degree(A, A[h].rhs)
                  THEN degree(A, A[h].lhs) ELSE degree(A, A[h].rhs)

(***************************************************************************)
(* The assembly backend (codegen/tasm.rs).  An emitted instruction is a    *)
(* record; the argument of a push is either a literal or `list + arg`, the *)
(* list's pointer being known only to the generated function.  Field `of`  *)
(* is an annotation: the node an arithmetic instruction computes.          *)
(***************************************************************************)
Instr(op, list, arg) == [op |-> op, list |-> list, arg |-> arg, of |-> -1]

\* an arithmetic instruction, annotated with the id of the node it computes
BinOpInstr(op, id) == [op |-> op, list |-> "none", arg |-> 0, of |-> id]

PushLit(c) == Instr("push", "none", c)
PushAddr(list, offset) == Instr("push", list, offset)

\* the read starts at the element's first word
element_index_to_word_index_of_first_word(element_index) ==
    element_index * EXTENSION_DEGREE

element_index_to_word_index_for_reading(element_index) ==
    LET word_offset == element_index * EXTENSION_DEGREE
        start_to_read_offset == EXTENSION_DEGREE - 1
    IN  word_offset + start_to_read_offset

load_ext_field_element_from_list(list, element_index) ==
    LET word_index == element_index_to_word_index_for_reading(element_index)
    IN  << PushAddr(list, word_index),
           Instr("read_mem", "none", 3),
           Instr("pop", "none", 1) >>

load_ext_field_element_from_pointed_to_list(list, element_index) ==
    LET word_index == element_index_to_word_index_for_reading(element_index)
    IN  << PushAddr(list, 0),
           Instr("read_mem", "none", 1),
           Instr("pop", "none", 1),
           Instr("addi", "none", word_index),
           Instr("read_mem", "none", 3),
           Instr("pop", "none", 1) >>

\* the incremented pointer is left on the stack
store_ext_field_element_without_pop(element_index) ==
    << PushAddr("FreeMemPage", element_index * EXTENSION_DEGREE),
       Instr("write_mem", "none", 3) >>

\* the element index taken for the word offset
store_ext_field_element_at_word_of_index(element_index) ==
    << PushAddr("FreeMemPage", element_index),
       Instr("write_mem", "none", 3),
       Instr("pop", "none", 1) >>

store_ext_field_element(element_index) ==
    LET word_offset == element_index * EXTENSION_DEGREE
    IN  << PushAddr("FreeMemPage", word_offset),
           Instr("write_mem", "none", 3),
           Instr("pop", "none", 1) >>

\* the coefficients pushed lowest first
load_ext_field_constant_lowest_first(xfe) ==
    << PushLit(xfe[1]), PushLit(xfe[2]), PushLit(xfe[3]) >>

load_ext_field_constant(xfe) ==
    << PushLit(xfe[3]), PushLit(xfe[2]), PushLit(xfe[1]) >>

load_input(self, node) ==
    LET list == CASE node.cur /\ node.base -> "CurrBaseRow"
                  [] node.cur /\ ~node.base -> "CurrExtRow"
                  [] ~node.cur /\ node.base -> "NextBaseRow"
                  [] OTHER -> "NextExtRow"
    IN  IF self.input_location_is_static
        THEN load_ext_field_element_from_list(list, node.idx)
        ELSE load_ext_field_element_from_pointed_to_list(list, node.idx)

load_challenge(challenge_idx) ==
    load_ext_field_element_from_list("Challenges", challenge_idx)

load_evaluated_bin_op(node_id) ==
    load_ext_field_element_from_list("FreeMemPage", node_id)

load_node(self, node) ==
    CASE node.kind = "BConstant" -> load_ext_field_constant(node.xfe)
      [] node.kind = "XConstant" -> load_ext_field_constant(node.xfe)
      [] node.kind = "Input" -> load_input(self, node)
      [] node.kind = "Challenge" -> load_challenge(node.idx)
      [] OTHER -> load_evaluated_bin_op(node.id)

RECURSIVE tasm_evaluate_single_node(_, _, _)
tasm_evaluate_single_node(self, A, h) ==
    IF A[h].id \in self.scope THEN load_node(self, A[h])
    ELSE IF A[h].kind # "BinaryOperation" THEN load_node(self, A[h])
    ELSE tasm_evaluate_single_node(self, A, A[h].lhs)
         \o tasm_evaluate_single_node(self, A, A[h].rhs)
         \o << IF A[h].op = "Add" THEN BinOpInstr("xx_add", A[h].id)
               ELSE BinOpInstr("xx_mul", A[h].id) >>


(***************************************************************************)
(* The passes of the assembly backend.  A pass threads a record            *)
(*   [self, out, panic]                                                    *)
(* where self is the TasmBackend, out the emitted pieces of code (one per  *)
(* stored node or written constraint) and panic whether an assertion of    *)
(* the pass has fired.                                                     *)
(***************************************************************************)
statically_known_input_locations ==
    [scope |-> {}, elements_written |-> 0, input_location_is_static |-> TRUE]

dynamically_known_input_locations ==
    [statically_known_input_locations EXCEPT !.input_location_is_static = FALSE]

RECURSIVE store_single_shared_node_of_ref_count(_, _, _, _, _)
store_single_shared_node_of_ref_count(r, A, rc, h, count) ==
    IF r.panic THEN r
    ELSE IF A[h].id \in r.self.scope THEN r
    ELSE IF A[h].kind # "BinaryOperation" THEN r
    ELSE IF rc[h] < count
    THEN store_single_shared_node_of_ref_count(
             store_single_shared_node_of_ref_count(r, A, rc, A[h].lhs, count),
             A, rc, A[h].rhs, count)
    ELSE IF rc[h] # count THEN [r EXCEPT !.panic = TRUE]
    ELSE LET evaluate == tasm_evaluate_single_node(r.self, A, h)
             store == store_ext_field_element(A[h].id)
             is_new_insertion == A[h].id \notin r.self.scope
         IN  [self |-> [r.self EXCEPT !.scope = @ \cup {A[h].id}],
              out |-> Append(r.out, evaluate \o store),
              panic |-> ~is_new_insertion]

RECURSIVE store_all_shared_nodes_of_ref_count(_, _, _, _, _)
store_all_shared_nodes_of_ref_count(r, A, rc, constraints, count) ==
    IF constraints = <<>> THEN r
    ELSE store_all_shared_nodes_of_ref_count(
             store_single_shared_node_of_ref_count(r, A, rc, Head(constraints), count),
             A, rc, Tail(constraints), count)

RECURSIVE StoreForCounts(_, _, _, _, _)
StoreForCounts(r, A, rc, constraints, counts) ==
    IF counts = <<>> THEN r
    ELSE StoreForCounts(
             store_all_shared_nodes_of_ref_count(r, A, rc, constraints, Head(counts)),
             A, rc, constraints, Tail(counts))

\* the counts taken smallest first
relevant_ref_counts_ascending(A, constraints) ==
    LET counts == Descending({c \in all_ref_counters(A, constraints) : c > 1})
    IN  [i \in 1 .. Len(counts) |-> counts[Len(counts) + 1 - i]]

relevant_ref_counts(A, constraints) ==
    Descending({c \in all_ref_counters(A, constraints) : c > 1})

store_all_shared_nodes(r, A, constraints) ==
    StoreForCounts(r, A, ref_count(A, constraints), constraints,
                   relevant_ref_counts(A, constraints))

write_evaluated_constraint_into_output_list(r, A, h) ==
    LET evaluated_constraint == tasm_evaluate_single_node(r.self, A, h)
        element_index == OUT_ARRAY_OFFSET + r.self.elements_written
        store_element == store_ext_field_element(element_index)
    IN  [r EXCEPT !.self.elements_written = @ + 1,
                  !.out = Append(@, evaluated_constraint \o store_element)]

RECURSIVE WriteAll(_, _, _)
WriteAll(r, A, cs) ==
    IF cs = <<>> THEN r
    ELSE WriteAll(write_evaluated_constraint_into_output_list(r, A, Head(cs)),
                  A, Tail(cs))

\* the constraints left in insertion order
constraints_in_insertion_order(A, constraints) == constraints

\* to match the native backend, base constraints are emitted first
sorted_constraints(A, constraints) ==
    LET base_constraints ==
            SelectSeq(constraints, LAMBDA c : evaluates_to_base_element(A, c))
        ext_constraints ==
            SelectSeq(constraints, LAMBDA c : ~evaluates_to_base_element(A, c))
    IN  base_constraints \o ext_constraints

\* one output element is left free behind every bucket
tokenize_circuits_with_separator(self, A, constraints) ==
    LET start == [self |-> [self EXCEPT !.scope = {}], out |-> <<>>, panic |-> FALSE]
        written == WriteAll(store_all_shared_nodes(start, A, constraints), A,
                            sorted_constraints(A, constraints))
    IN  [written EXCEPT !.self.elements_written = @ + 1]

\* the scope of the bucket before is kept
scope_of_the_bucket_before(self) == self

\* the counter of the output elements is reset with the scope
fresh_scope_and_counter(self) == [self EXCEPT !.scope = {}, !.elements_written = 0]

fresh_scope(self) == [self EXCEPT !.scope = {}]

tasm_tokenize_circuits(self, A, constraints) ==
    LET start == [self |-> fresh_scope(self), out |-> <<>>, panic |-> FALSE]
        store_shared_nodes == store_all_shared_nodes(start, A, constraints)
    IN  WriteAll(store_shared_nodes, A, sorted_constraints(A, constraints))

write_row_pointers_to_ram_current_first ==
    LET write_pointer_to_ram(list_id) ==
            << PushAddr(list_id, 0),
               Instr("write_mem", "none", 1),
               Instr("pop", "none", 1) >>
    IN  write_pointer_to_ram("CurrBaseRow") \o write_pointer_to_ram("CurrExtRow")
        \o write_pointer_to_ram("NextBaseRow") \o write_pointer_to_ram("NextExtRow")

write_row_pointers_to_ram ==
    LET write_pointer_to_ram(list_id) ==
            << PushAddr(list_id, 0),
               Instr("write_mem", "none", 1),
               Instr("pop", "none", 1) >>
    IN  write_pointer_to_ram("NextExtRow") \o write_pointer_to_ram("NextBaseRow")
        \o write_pointer_to_ram("CurrExtRow") \o write_pointer_to_ram("CurrBaseRow")

\* the epilogue of a subroutine
prepare_return_values_and_return ==
    << PushAddr("FreeMemPage", OUT_ARRAY_OFFSET * EXTENSION_DEGREE),
       Instr("return", "none", 0) >>

\* the offset left in elements
prepare_return_values_in_elements ==
    << PushAddr("FreeMemPage", OUT_ARRAY_OFFSET) >>

prepare_return_values ==
    LET out_array_offset_in_num_bfes == OUT_ARRAY_OFFSET * EXTENSION_DEGREE
    IN  << PushAddr("FreeMemPage", out_array_offset_in_num_bfes) >>

(***************************************************************************)
(* The generated functions: they bind the lists' pointers to the memory    *)
(* layout and decode the raw instructions.                                 *)
(***************************************************************************)
num_pointer_pointers == 4

static_pointer(mem_layout, list) ==
    CASE list = "FreeMemPage" -> mem_layout.free_mem_page_ptr
      [] list = "CurrBaseRow" -> mem_layout.curr_base_row_ptr
      [] list = "CurrExtRow" -> mem_layout.curr_ext_row_ptr
      [] list = "NextBaseRow" -> mem_layout.next_base_row_ptr
      [] list = "NextExtRow" -> mem_layout.next_ext_row_ptr
      [] OTHER -> mem_layout.challenges_ptr

dynamic_pointer(mem_layout, list) ==
    CASE list = "FreeMemPage" -> mem_layout.free_mem_page_ptr + num_pointer_pointers
      [] list = "CurrBaseRow" -> mem_layout.free_mem_page_ptr
      [] list = "CurrExtRow" -> mem_layout.free_mem_page_ptr + 1
      [] list = "NextBaseRow" -> mem_layout.free_mem_page_ptr + 2
      [] list = "NextExtRow" -> mem_layout.free_mem_page_ptr + 3
      [] OTHER -> mem_layout.challenges_ptr

Decode(tok, ptr) ==
    [kind |-> "Instruction", op |-> tok.op,
     arg |-> IF tok.list = "none" THEN tok.arg ELSE ptr + tok.arg]

static_air_constraint_evaluation_tasm(mem_layout, raw_instructions) ==
    [i \in 1 .. Len(raw_instructions) |->
        Decode(raw_instructions[i],
               static_pointer(mem_layout, raw_instructions[i].list))]

dynamic_air_constraint_evaluation_tasm(mem_layout, raw_instructions) ==
    [i \in 1 .. Len(raw_instructions) |->
        Decode(raw_instructions[i],
               dynamic_pointer(mem_layout, raw_instructions[i].list))]


(***************************************************************************)
(* The native backend (main.rs).  Emitted code is kept as syntax trees:    *)
(* a binding name, a row element, a challenge, a constant, or              *)
(* `(lhs) op (rhs)`; field `of` of the latter is an annotation, the id of  *)
(* the node the expression computes.                                       *)
(***************************************************************************)
get_binding_name(node) ==
    CASE node.kind = "BConstant" -> [t |-> "constant", xfe |-> node.xfe]
      [] node.kind = "XConstant" -> [t |-> "constant", xfe |-> node.xfe]
      [] node.kind = "Input" ->
            [t |-> "input", cur |-> node.cur, base |-> node.base, idx |-> node.idx]
      [] node.kind = "Challenge" -> [t |-> "challenge", idx |-> node.idx]
      [] OTHER -> [t |-> "name", id |-> node.id]

RECURSIVE rust_evaluate_single_node(_, _, _, _, _)
rust_evaluate_single_node(requested_visited_count, A, rc, h, scope) ==
    LET binding_name == get_binding_name(A[h])
    IN  IF A[h].id \in scope THEN binding_name
        ELSE IF rc[h] > requested_visited_count THEN binding_name
        ELSE IF A[h].kind # "BinaryOperation" THEN binding_name
        ELSE [t |-> "binop", op |-> A[h].op, of |-> A[h].id,
              lhs |-> rust_evaluate_single_node(requested_visited_count, A, rc,
                                                A[h].lhs, scope),
              rhs |-> rust_evaluate_single_node(requested_visited_count, A, rc,
                                                A[h].rhs, scope)]

\* r = [scope, out, panic]: out are the let-declarations emitted so far
RECURSIVE declare_single_node_with_visit_count(_, _, _, _, _)
declare_single_node_with_visit_count(r, A, rc, h, requested_visited_count) ==
    IF r.panic THEN r
    ELSE IF A[h].id \in r.scope THEN r
    ELSE IF rc[h] > requested_visited_count THEN r
    ELSE IF A[h].kind # "BinaryOperation" THEN r
    ELSE IF rc[h] < requested_visited_count
    THEN declare_single_node_with_visit_count(
             declare_single_node_with_visit_count(r, A, rc, A[h].lhs,
                                                  requested_visited_count),
             A, rc, A[h].rhs, requested_visited_count)
    ELSE LET evaluation == rust_evaluate_single_node(requested_visited_count, A, rc,
                                                     h, r.scope)
             is_new_insertion == A[h].id \notin r.scope
         IN  [scope |-> r.scope \cup {A[h].id},
              out |-> Append(r.out, [name |-> A[h].id, evaluation |-> evaluation]),
              panic |-> ~is_new_insertion]

RECURSIVE DeclareAll(_, _, _, _, _)
DeclareAll(r, A, rc, circuits, requested_visited_count) ==
    IF circuits = <<>> THEN r
    ELSE DeclareAll(
             declare_single_node_with_visit_count(r, A, rc, Head(circuits),
                                                  requested_visited_count),
             A, rc, Tail(circuits), requested_visited_count)

declare_nodes_with_visit_count(requested_visited_count, A, rc, circuits) ==
    DeclareAll([scope |-> {}, out |-> <<>>, panic |-> FALSE], A, rc, circuits,
               requested_visited_count)

\* the counts taken smallest first
RECURSIVE DeclareForCountsAscending(_, _, _, _)
DeclareForCountsAscending(A, rc, circuits, counts) ==
    IF counts = <<>> THEN [out |-> <<>>, panic |-> FALSE]
    ELSE LET first == declare_nodes_with_visit_count(Head(counts), A, rc, circuits)
             rest == DeclareForCountsAscending(A, rc, circuits, Tail(counts))
         IN  [out |-> rest.out \o first.out, panic |-> first.panic \/ rest.panic]

RECURSIVE DeclareForCounts(_, _, _, _)
DeclareForCounts(A, rc, circuits, counts) ==
    IF counts = <<>> THEN [out |-> <<>>, panic |-> FALSE]
    ELSE LET first == declare_nodes_with_visit_count(Head(counts), A, rc, circuits)
             rest == DeclareForCounts(A, rc, circuits, Tail(counts))
         IN  [out |-> first.out \o rest.out, panic |-> first.panic \/ rest.panic]

get_all_visited_counters(A, circuits) == all_ref_counters(A, circuits)

\* a degree bound for whatever degree, the last arm of the match left out
tokenize_degree_bound_of_any_degree(d) ==
    IF d > 1 THEN [form |-> "interpolant_degree * d - zerofier_degree", d |-> d]
    ELSE [form |-> "interpolant_degree - zerofier_degree", d |-> d]

\* the degree bound emitted for a constraint of degree d; the last arm of the
\* match is unreachable!("Constraint degree must be positive"), a panic
tokenize_degree_bound(d) ==
    IF d > 1 THEN [form |-> "interpolant_degree * d - zerofier_degree", d |-> d]
    ELSE IF d = 1 THEN [form |-> "interpolant_degree - zerofier_degree", d |-> 1]
    ELSE [form |-> "unreachable", d |-> d]

rust_base_constraints(A, circuits) ==
    SelectSeq(circuits, LAMBDA c : evaluates_to_base_element(A, c))

rust_ext_constraints(A, circuits) ==
    SelectSeq(circuits, LAMBDA c : ~evaluates_to_base_element(A, c))

\* the degree bounds listed in insertion order
chained_in_insertion_order(A, circuits) == circuits

\* base_constraints.iter().chain(ext_constraints.iter())
chained_constraints(A, circuits) ==
    rust_base_constraints(A, circuits) \o rust_ext_constraints(A, circuits)

\* num_*_quotients of the generated code
num_quotients(constraint_circuits) == Len(constraint_circuits)

rust_tokenize_circuits(A, constraint_circuits) ==
    IF constraint_circuits = <<>>
    THEN [is_empty_vec |-> TRUE, degree_bounds |-> <<>>, shared_declarations |-> <<>>,
          base_constraints |-> <<>>, ext_constraints |-> <<>>, panic |-> FALSE]
    ELSE IF ~has_unique_ids(A, constraint_circuits)
    THEN [is_empty_vec |-> FALSE, degree_bounds |-> <<>>, shared_declarations |-> <<>>,
          base_constraints |-> <<>>, ext_constraints |-> <<>>, panic |-> TRUE]
    ELSE
    LET rc == ref_count(A, constraint_circuits)
        visited_counters == get_all_visited_counters(A, constraint_circuits)
        shared == DeclareForCounts(A, rc, constraint_circuits,
                                   Descending({x \in visited_counters : x > 1}))
        base_constraints == rust_base_constraints(A, constraint_circuits)
        ext_constraints == rust_ext_constraints(A, constraint_circuits)
        chained == chained_constraints(A, constraint_circuits)
        tokenized_degree_bounds ==
            [i \in 1 .. Len(chained) |-> tokenize_degree_bound(degree(A, chained[i]))]
        tokenize_constraint_evaluation(constraints) ==
            [i \in 1 .. Len(constraints) |->
                rust_evaluate_single_node(1, A, rc, constraints[i], {})]
    IN  [is_empty_vec |-> FALSE,
         degree_bounds |-> tokenized_degree_bounds,
         shared_declarations |-> shared.out,
         base_constraints |-> tokenize_constraint_evaluation(base_constraints),
         ext_constraints |-> tokenize_constraint_evaluation(ext_constraints),
         panic |-> shared.panic
                   \/ \E i \in 1 .. Len(chained) :
                          tokenized_degree_bounds[i].form = "unreachable"]


(***************************************************************************)
(* Evaluation points (air.rs, ConstraintEvaluationPoint): the rows, the    *)
(* challenges and a memory layout.                                         *)
(***************************************************************************)
IOLists == <<"CurrBaseRow", "CurrExtRow", "NextBaseRow", "NextExtRow", "Challenges">>

ListNo(list) == CHOOSE k \in 1 .. 5 : IOLists[k] = list

ListLen(list) ==
    CASE list \in {"CurrBaseRow", "NextBaseRow"} -> NumBaseColumns
      [] list \in {"CurrExtRow", "NextExtRow"} -> NumExtColumns
      [] OTHER -> NumChallenges

\* element i of a list at the point numbered seed
ElementOf(seed, list, i) ==
    << Norm(seed + ListNo(list) + i),
       Norm(2 * seed + ListNo(list) * (i + 1) + 1),
       Norm(seed * (i + 1) + 3 * ListNo(list) + 2) >>

RegionGap == EXTENSION_DEGREE * (NumBaseColumns + NumExtColumns + NumChallenges)

\* the scratch page first, the lists behind it
LayoutPageFirst ==
    [free_mem_page_ptr |-> 0,
     curr_base_row_ptr |-> MEM_PAGE_SIZE,
     curr_ext_row_ptr |-> MEM_PAGE_SIZE + RegionGap,
     next_base_row_ptr |-> MEM_PAGE_SIZE + 2 * RegionGap,
     next_ext_row_ptr |-> MEM_PAGE_SIZE + 3 * RegionGap,
     challenges_ptr |-> MEM_PAGE_SIZE + 4 * RegionGap]

\* the lists first, in another order, the scratch page behind them
LayoutPageLast ==
    [free_mem_page_ptr |-> 5 * RegionGap + 1,
     curr_base_row_ptr |-> 3 * RegionGap,
     curr_ext_row_ptr |-> 0,
     next_base_row_ptr |-> 4 * RegionGap,
     next_ext_row_ptr |-> RegionGap,
     challenges_ptr |-> 2 * RegionGap]

Region(start, size) == start .. (start + size - 1)

ListPtr(mem_layout, list) == static_pointer(mem_layout, list)

\* IntegralMemoryLayout::is_integral: the regions are pairwise disjoint
is_integral(mem_layout) ==
    LET regions ==
            [k \in 1 .. 6 |->
                IF k = 6 THEN Region(mem_layout.free_mem_page_ptr, MEM_PAGE_SIZE)
                ELSE Region(ListPtr(mem_layout, IOLists[k]),
                            EXTENSION_DEGREE * ListLen(IOLists[k]))]
    IN  \A j, k \in 1 .. 6 : j # k => regions[j] \cap regions[k] = {}

\* the same for the two regions of DynamicTasmConstraintEvaluationMemoryLayout
dynamic_is_integral(mem_layout) ==
    Region(mem_layout.free_mem_page_ptr, MEM_PAGE_SIZE)
        \cap Region(mem_layout.challenges_ptr, EXTENSION_DEGREE * NumChallenges) = {}

Points ==
    {[seed |-> sd,
      static_memory_layout |-> IF sd % 2 = 0 THEN LayoutPageFirst ELSE LayoutPageLast]
        : sd \in 0 .. MaxSeed}

\* extend_ram_at_address, for one list
ListInRam(seed, list, address) ==
    [a \in Region(address, EXTENSION_DEGREE * ListLen(list)) |->
        ElementOf(seed, list, (a - address) \div EXTENSION_DEGREE)
            [((a - address) % EXTENSION_DEGREE) + 1]]

\* the RAM of set_up_triton_vm_to_evaluate_constraints_in_tasm_static
InitialRam(pt) ==
    LET at(list) == ListInRam(pt.seed, list, ListPtr(pt.static_memory_layout, list))
    IN  at("Challenges") @@ at("NextExtRow") @@ at("NextBaseRow")
        @@ at("CurrExtRow") @@ at("CurrBaseRow")

(***************************************************************************)
(* The stack machine: the instructions the backend emits, and halt.        *)
(* The top of the operand stack is the last element of op_stack.           *)
(***************************************************************************)
RamRead(ram, a) == IF a \in DOMAIN ram THEN ram[a] ELSE 0

\* the operands an instruction takes from the stack
Operands(instr) ==
    CASE instr.op \in {"push", "halt"} -> 0
      [] instr.op = "pop" -> instr.arg
      [] instr.op \in {"read_mem", "addi"} -> 1
      [] instr.op = "write_mem" -> instr.arg + 1
      [] OTHER -> 2 * EXTENSION_DEGREE

Top(st, k) == st[Len(st) - k]

DropTop(st, n) == SubSeq(st, 1, Len(st) - n)

PushXfe(st, x) == st \o <<x[3], x[2], x[1]>>

Execute(vm, instr) ==
    LET st == vm.op_stack
        n == instr.arg
    IN  CASE instr.op = "push" ->
               [vm EXCEPT !.op_stack = Append(st, n), !.ip = @ + 1]
          [] instr.op = "pop" ->
               [vm EXCEPT !.op_stack = DropTop(st, n), !.ip = @ + 1]
          [] instr.op = "addi" ->
               [vm EXCEPT !.op_stack = Append(DropTop(st, 1), Top(st, 0) + n),
                          !.ip = @ + 1]
          [] instr.op = "read_mem" ->
               LET ptr == Top(st, 0)
               IN  [vm EXCEPT
                      !.op_stack = DropTop(st, 1)
                                   \o [k \in 1 .. n |-> RamRead(vm.ram, ptr - (k - 1))]
                                   \o <<ptr - n>>,
                      !.ip = @ + 1]
          [] instr.op = "write_mem" ->
               LET ptr == Top(st, 0)
               IN  [vm EXCEPT
                      !.ram = [a \in Region(ptr, n) |-> Top(st, (a - ptr) + 1)] @@ @,
                      !.op_stack = Append(DropTop(st, n + 1), ptr + n),
                      !.ip = @ + 1]
          [] instr.op = "xx_add" ->
               [vm EXCEPT
                  !.op_stack = PushXfe(DropTop(st, 6),
                                       XAdd(<<Top(st, 0), Top(st, 1), Top(st, 2)>>,
                                            <<Top(st, 3), Top(st, 4), Top(st, 5)>>)),
                  !.ip = @ + 1]
          [] instr.op = "xx_mul" ->
               [vm EXCEPT
                  !.op_stack = PushXfe(DropTop(st, 6),
                                       XMul(<<Top(st, 0), Top(st, 1), Top(st, 2)>>,
                                            <<Top(st, 3), Top(st, 4), Top(st, 5)>>)),
                  !.ip = @ + 1]
          [] OTHER -> [vm EXCEPT !.status = "halted"]

VmStep(vm) ==
    LET instr == vm.program[vm.ip]
    IN  IF Operands(instr) > Len(vm.op_stack)
        THEN [vm EXCEPT !.status = "op stack underflow"]
        ELSE Execute(vm, instr)

Halt == [kind |-> "Instruction", op |-> "halt", arg |-> 0]

\* read_xfe_list_at_address; a word that is not in the RAM reads as -1
read_xfe_list_at_address(ram, address, len) ==
    LET word(a) == IF a \in DOMAIN ram THEN ram[a] ELSE -1
    IN  [k \in 1 .. len |->
            << word(address + EXTENSION_DEGREE * (k - 1)),
               word(address + EXTENSION_DEGREE * (k - 1) + 1),
               word(address + EXTENSION_DEGREE * (k - 1) + 2) >>]

(***************************************************************************)
(* Running the emitted native code: the let-declarations in order, then    *)
(* the two arrays, chained.                                                *)
(***************************************************************************)
Undeclared == <<-1, -1, -1>>

RowList(cur, base) ==
    CASE cur /\ base -> "CurrBaseRow"
      [] cur /\ ~base -> "CurrExtRow"
      [] ~cur /\ base -> "NextBaseRow"
      [] OTHER -> "NextExtRow"

RECURSIVE RunExpression(_, _, _)
RunExpression(e, env, seed) ==
    CASE e.t = "constant" -> e.xfe
      [] e.t = "input" -> ElementOf(seed, RowList(e.cur, e.base), e.idx)
      [] e.t = "challenge" -> ElementOf(seed, "Challenges", e.idx)
      [] e.t = "name" -> IF e.id \in DOMAIN env THEN env[e.id] ELSE Undeclared
      [] OTHER ->
           LET l == RunExpression(e.lhs, env, seed)
               r == RunExpression(e.rhs, env, seed)
           IN  IF l = Undeclared \/ r = Undeclared THEN Undeclared
               ELSE IF e.op = "Add" THEN XAdd(l, r)
               ELSE IF e.op = "Sub" THEN XSub(l, r)
               ELSE XMul(l, r)

RECURSIVE RunDeclarations(_, _, _)
RunDeclarations(decls, env, seed) ==
    IF decls = <<>> THEN env
    ELSE RunDeclarations(
             Tail(decls),
             (Head(decls).name :> RunExpression(Head(decls).evaluation, env, seed))
                 @@ env,
             seed)

\* Evaluable<XFieldElement>::evaluate_*_constraints of the generated code
evaluate_constraints(code, seed) ==
    IF code.is_empty_vec THEN <<>>
    ELSE LET env == RunDeclarations(code.shared_declarations, <<>>, seed)
             chained == code.base_constraints \o code.ext_constraints
         IN  [i \in 1 .. Len(chained) |-> RunExpression(chained[i], env, seed)]

\* Quotientable::*_quotient_degree_bounds of the generated code
quotient_degree_bounds(code, interpolant_degree, zerofier_degree) ==
    [i \in 1 .. Len(code.degree_bounds) |->
        IF code.degree_bounds[i].form = "interpolant_degree - zerofier_degree"
        THEN interpolant_degree - zerofier_degree
        ELSE interpolant_degree * code.degree_bounds[i].d - zerofier_degree]


(***************************************************************************)
(* Degree lowering (ConstraintCircuitMonad::lower_to_degree, called by     *)
(* main.rs 103-135).  The builder of a bucket is an arena that grows: a    *)
(* fresh node takes the next handle, which is also its id.  A substitution *)
(* rule is the node `new_variable - chosen_node`.                          *)
(***************************************************************************)
\* the builder the buckets to be lowered are built with
LoweringArena ==
    [h \in 0 .. 13 |->
       CASE h = 0 -> InputNode(0, TRUE, TRUE, 0)
         [] h = 1 -> InputNode(1, TRUE, TRUE, 1)
         [] h = 2 -> InputNode(2, TRUE, FALSE, 0)
         [] h = 3 -> ChallengeNode(3, 0)
         [] h = 4 -> BConstantNode(4, 3)
         [] h = 5 -> BinOpNode(5, "Mul", 0, 1)
         [] h = 6 -> BinOpNode(6, "Mul", 5, 0)
         [] h = 7 -> BinOpNode(7, "Mul", 6, 1)
         [] h = 8 -> BinOpNode(8, "Mul", 5, 2)
         [] h = 9 -> BinOpNode(9, "Mul", 8, 8)
         [] h = 10 -> BinOpNode(10, "Add", 6, 8)
         [] h = 11 -> BinOpNode(11, "Mul", 2, 2)
         [] h = 12 -> BinOpNode(12, "Mul", 11, 0)
         [] OTHER -> BinOpNode(13, "Add", 6, 12)]

\* builder.input / the binary operation of two monads: the arena with one more node
NextHandle(A) == Cardinality(DOMAIN A)

WithNode(A, node) ==
    [h \in 0 .. NextHandle(A) |-> IF h \in DOMAIN A THEN A[h] ELSE node]

\* the degree of a bucket: the largest degree of its circuits, -1 when empty
multicircuit_degree(A, multicircuit) ==
    IF multicircuit = <<>> THEN -1
    ELSE Max({degree(A, multicircuit[i]) : i \in DOMAIN multicircuit})

\* the candidates with the nodes of degree 1 among them
candidates_of_degree_one_and_more(A, multicircuit, target_degree) ==
    {h \in UNION {Subtree(A, multicircuit[i]) :
                     i \in {j \in DOMAIN multicircuit :
                               degree(A, multicircuit[j]) > target_degree}} :
        /\ degree(A, h) >= 1
        /\ degree(A, h) <= target_degree}

\* the nodes the scan may replace: they lie in a circuit whose degree exceeds the
\* target, and their own degree is above 1 and at most the target, the degree a
\* rule's right-hand side must have
SubstitutionCandidates(A, multicircuit, target_degree) ==
    {h \in UNION {Subtree(A, multicircuit[i]) :
                     i \in {j \in DOMAIN multicircuit :
                               degree(A, multicircuit[j]) > target_degree}} :
        /\ degree(A, h) > 1
        /\ degree(A, h) <= target_degree}

Min(S) == CHOOSE x \in S : \A y \in S : x <= y

\* the scan in insertion order stops at its first match
pick_node_to_substitute(A, multicircuit, target_degree) ==
    Min(SubstitutionCandidates(A, multicircuit, target_degree))

\* every parent of the chosen node refers to the new node instead
substitute(A, chosen, new) ==
    [h \in DOMAIN A |->
        IF A[h].kind # "BinaryOperation" THEN A[h]
        ELSE [A[h] EXCEPT !.lhs = IF @ = chosen THEN new ELSE @,
                          !.rhs = IF @ = chosen THEN new ELSE @]]

\* one turn of the loop of lower_to_degree on the bucket
\*   c = [arena, multicircuit, base_constraints, ext_constraints]
\* with the column counts the call was given
lower_to_degree_step(c, target_degree, num_base_cols, num_ext_cols) ==
    LET A == c.arena
        chosen == pick_node_to_substitute(
                      A, c.multicircuit \o c.base_constraints \o c.ext_constraints,
                      target_degree)
        chosen_node_is_base_col == evaluates_to_base_element(A, chosen)
        new_col_idx == IF chosen_node_is_base_col
                       THEN num_base_cols + Len(c.base_constraints)
                       ELSE num_ext_cols + Len(c.ext_constraints)
        new_variable == NextHandle(A)
        new_constraint == new_variable + 1
        with_variable ==
            WithNode(substitute(A, chosen, new_variable),
                     InputNode(new_variable, TRUE, chosen_node_is_base_col,
                               new_col_idx))
        with_rule ==
            WithNode(with_variable,
                     BinOpNode(new_constraint, "Sub", new_variable, chosen))
    IN  [arena |-> with_rule,
         multicircuit |-> c.multicircuit,
         base_constraints |->
             IF chosen_node_is_base_col
             THEN Append(c.base_constraints, new_constraint)
             ELSE c.base_constraints,
         ext_constraints |->
             IF chosen_node_is_base_col THEN c.ext_constraints
             ELSE Append(c.ext_constraints, new_constraint)]

\* the loop left one degree early
exceeds_target_degree_by_two(c, target_degree) ==
    multicircuit_degree(
        c.arena, c.multicircuit \o c.base_constraints \o c.ext_constraints)
      > target_degree + 1

\* the loop's condition: a constraint or a rule of the bucket exceeds the target
exceeds_target_degree(c, target_degree) ==
    multicircuit_degree(
        c.arena, c.multicircuit \o c.base_constraints \o c.ext_constraints)
      > target_degree

(***************************************************************************)
(* The code of the degree-lowering table (main.rs 620-956).  The fill code *)
(* is kept as the list of assignments `row[col] = expression`.             *)
(***************************************************************************)
usize_MAX == 2147483647

\* main.rs 620-632
substitution_rule_of_any_shape_to_code(A, circuit) ==
    IF A[circuit].kind # "BinaryOperation"
    THEN [panic |-> "Substitution rule must be a subtraction.",
          code |-> [t |-> "none"]]
    ELSE [panic |-> "",
          code |-> rust_evaluate_single_node(usize_MAX, A, reset_ref_count(A),
                                             A[circuit].rhs, {})]

substitution_rule_to_code(A, circuit) ==
    IF A[circuit].kind # "BinaryOperation" \/ A[circuit].op # "Sub"
    THEN [panic |-> "Substitution rule must be a subtraction.",
          code |-> [t |-> "none"]]
    ELSE IF A[A[circuit].lhs].kind # "Input"
    THEN [panic |-> "Substitution rule must be a simple substitution.",
          code |-> [t |-> "none"]]
    ELSE [panic |-> "",
          code |-> rust_evaluate_single_node(usize_MAX, A, reset_ref_count(A),
                                             A[circuit].rhs, {})]

\* the columns counted down from the last
fill_assignments_last_column_first(A, substitutions, first_col_index) ==
    [i \in 1 .. Len(substitutions) |->
        [col |-> (Len(substitutions) - i) + first_col_index,
         panic |-> substitution_rule_to_code(A, substitutions[i]).panic,
         code |-> substitution_rule_to_code(A, substitutions[i]).code]]

\* main.rs 754-787 and 858-891: the columns and the expressions of one bucket
fill_assignments(A, substitutions, first_col_index) ==
    [i \in 1 .. Len(substitutions) |->
        [col |-> (i - 1) + first_col_index,
         panic |-> substitution_rule_to_code(A, substitutions[i]).panic,
         code |-> substitution_rule_to_code(A, substitutions[i]).code]]

\* the columns of the transition bucket counted without the consistency bucket's
fill_base_columns_without_cons_offset(deterministic_section_start, lw) ==
    LET num_init == Len(lw["init"].base_constraints)
        num_tran == Len(lw["tran"].base_constraints)
    IN  [init |-> fill_assignments(lw["init"].arena, lw["init"].base_constraints,
                                   deterministic_section_start),
         cons |-> fill_assignments(lw["cons"].arena, lw["cons"].base_constraints,
                                   deterministic_section_start + num_init),
         tran |-> fill_assignments(lw["tran"].arena, lw["tran"].base_constraints,
                                   deterministic_section_start + num_init),
         term |-> fill_assignments(lw["term"].arena, lw["term"].base_constraints,
                                   deterministic_section_start + num_init + num_tran)]

\* main.rs 740-842: the substitutions are those of the four buckets, in order
generate_fill_base_columns_code(deterministic_section_start, lw) ==
    LET num_init == Len(lw["init"].base_constraints)
        num_cons == Len(lw["cons"].base_constraints)
        num_tran == Len(lw["tran"].base_constraints)
    IN  [init |-> fill_assignments(lw["init"].arena, lw["init"].base_constraints,
                                   deterministic_section_start),
         cons |-> fill_assignments(lw["cons"].arena, lw["cons"].base_constraints,
                                   deterministic_section_start + num_init),
         tran |-> fill_assignments(lw["tran"].arena, lw["tran"].base_constraints,
                                   deterministic_section_start + num_init + num_cons),
         term |-> fill_assignments(lw["term"].arena, lw["term"].base_constraints,
                                   deterministic_section_start + num_init + num_cons
                                     + num_tran)]

\* main.rs 844-956
generate_fill_ext_columns_code(deterministic_section_start, lw) ==
    LET num_init == Len(lw["init"].ext_constraints)
        num_cons == Len(lw["cons"].ext_constraints)
        num_tran == Len(lw["tran"].ext_constraints)
    IN  [init |-> fill_assignments(lw["init"].arena, lw["init"].ext_constraints,
                                   deterministic_section_start),
         cons |-> fill_assignments(lw["cons"].arena, lw["cons"].ext_constraints,
                                   deterministic_section_start + num_init),
         tran |-> fill_assignments(lw["tran"].arena, lw["tran"].ext_constraints,
                                   deterministic_section_start + num_init + num_cons),
         term |-> fill_assignments(lw["term"].arena, lw["term"].ext_constraints,
                                   deterministic_section_start + num_init + num_cons
                                     + num_tran)]

\* main.rs 789-825: the loop each bucket's base assignments are put in
fill_base_columns_loops(lw) ==
    [b \in {"init", "cons", "tran", "term"} |->
        IF lw[b].base_constraints = <<>> THEN ""
        ELSE IF b = "tran" THEN "for curr_row_idx in 0..master_base_table.nrows() - 1"
        ELSE "master_base_table.rows_mut().into_iter().for_each"]

\* main.rs 893-933: the loop each bucket's extension assignments are put in
fill_ext_columns_loops(lw) ==
    [b \in {"init", "cons", "tran", "term"} |->
        IF lw[b].ext_constraints = <<>> THEN ""
        ELSE IF b = "tran" THEN "for curr_row_idx in 0..master_base_table.nrows() - 1"
        ELSE "for row_idx in 0..master_base_table.nrows() - 1"]

\* the rows the body of a generated loop runs on, for a table of nrows rows
rows_of_loop(loop, nrows) ==
    CASE loop = "" -> {}
      [] loop = "master_base_table.rows_mut().into_iter().for_each" -> 0 .. nrows - 1
      [] OTHER -> 0 .. nrows - 2

\* master_table::NUM_BASE_COLUMNS and NUM_EXT_COLUMNS: the columns of all tables,
\* those of the degree-lowering table on disk included
NUM_BASE_COLUMNS(on_disk) == NumBaseColumns + on_disk.BASE_WIDTH
NUM_EXT_COLUMNS(on_disk) == NumExtColumns + on_disk.EXT_WIDTH

\* main.rs 637-738; on_disk is the degree_lowering_table the generator is built with
generate_degree_lowering_table_code(on_disk, lw) ==
    LET base == generate_fill_base_columns_code(
                    NUM_BASE_COLUMNS(on_disk) - on_disk.BASE_WIDTH, lw)
        ext == generate_fill_ext_columns_code(
                    NUM_EXT_COLUMNS(on_disk) - on_disk.EXT_WIDTH, lw)
        all == base["init"] \o base["cons"] \o base["tran"] \o base["term"]
               \o ext["init"] \o ext["cons"] \o ext["tran"] \o ext["term"]
    IN  [BASE_WIDTH |-> Len(lw["init"].base_constraints)
                        + Len(lw["cons"].base_constraints)
                        + Len(lw["tran"].base_constraints)
                        + Len(lw["term"].base_constraints),
         EXT_WIDTH |-> Len(lw["init"].ext_constraints)
                       + Len(lw["cons"].ext_constraints)
                       + Len(lw["tran"].ext_constraints)
                       + Len(lw["term"].ext_constraints),
         fill_base |-> base,
         fill_ext |-> ext,
         base_loops |-> fill_base_columns_loops(lw),
         ext_loops |-> fill_ext_columns_loops(lw),
         panic |-> \E i \in DOMAIN all : all[i].panic # ""]


(***************************************************************************)
(* The state machine: one run of the generator (the native backend, then   *)
(* the assembly backend in static and in dynamic mode), followed by the    *)
(* evaluation of the generated code at one point as in air.rs.             *)
(***************************************************************************)
VARIABLES
    batch,            \* the four buckets of constraint circuits (roots)
    point,            \* the evaluation point
    pc,               \* the step the run is at
    mode,             \* "static" or "dynamic": the entry point being emitted or run
    bucket_ix,        \* the bucket the assembly backend emits next
    rust_code,        \* the native backend's output, per bucket
    backend,          \* the TasmBackend
    raw_instructions, \* the emitted raw instructions, per mode
    piece_ends,       \* per mode: the positions at which an emitted piece ends
    bucket_ends,      \* per mode: the code length after the prologue and each bucket
    vm,               \* the VMState
    evaluations       \* the vectors of constraint values: rust, static, dynamic

codegen_vars ==
    <<batch, point, pc, mode, bucket_ix, rust_code, backend, raw_instructions,
      piece_ends, bucket_ends, vm, evaluations>>

\* the run of main() with degree lowering
VARIABLES
    multicircuits,         \* the four buckets as built: the roots, per bucket
    target_degree,         \* master_table::AIR_TARGET_DEGREE
    degree_lowering_table, \* the widths of the degree_lowering_table.rs on disk
    main_pc,               \* the step main() is at
    lower_ix,              \* the bucket lower_to_degree works on
    lowering,              \* per bucket: the builder, the circuits, the substitutions
    num_base_cols,         \* main.rs 101
    num_ext_cols,          \* main.rs 102
    starts,                \* the column counts each call of lower_to_degree was given
    table_code,            \* the code of the degree-lowering table
    constraints,           \* main.rs 148-176: the buckets handed to the backend
    constraint_code,       \* main.rs 178-183
    written                \* what each run of the generator wrote to disk

lowering_vars ==
    <<multicircuits, target_degree, degree_lowering_table, main_pc, lower_ix,
      lowering, num_base_cols, num_ext_cols, starts, table_code, constraints,
      constraint_code, written>>

\* one call of a function of the repository, and what it returned
VARIABLES
    call,                  \* the function and its arguments
    outcome                \* its result, or that it has not run yet

call_vars == <<call, outcome>>

vars == <<codegen_vars, lowering_vars, call_vars>>

NoCall == [fn |-> "none"]

NotCalled == [t |-> "not called"]

CallIdle == call = NoCall /\ outcome = NotCalled

BucketNames == {Buckets[k] : k \in 1 .. 4}

\* the roots the buckets are drawn from
SingleRowRoots == {6, 7, 8}

SeqsUpTo(S, n) == UNION {[1 .. k -> S] : k \in 0 .. n}

Batches ==
    {[init |-> i, cons |-> c, tran |-> t, term |-> r] :
        i \in SeqsUpTo(SingleRowRoots, MaxLen),
        c \in {<<>>, <<7, 10>>},
        t \in {<<>>, <<8>>, <<7, 5>>},
        r \in {<<>>, <<8, 8>>}}

NoCode ==
    [is_empty_vec |-> TRUE, degree_bounds |-> <<>>, shared_declarations |-> <<>>,
     base_constraints |-> <<>>, ext_constraints |-> <<>>, panic |-> FALSE]

IdleVm ==
    [program |-> <<>>, ip |-> 1, op_stack |-> <<>>, ram |-> <<>>, status |-> "idle"]

Multicircuits ==
    {[init |-> i, cons |-> c, tran |-> t, term |-> r] :
        i \in {<<>>, <<6>>, <<7>>, <<13, 5>>},
        c \in {<<>>, <<8>>, <<12, 10>>},
        t \in {<<>>, <<9>>, <<6, 8>>},
        r \in {<<>>, <<10>>, <<13>>}}

NotLowered(multicircuit) ==
    [arena |-> LoweringArena, multicircuit |-> multicircuit,
     base_constraints |-> <<>>, ext_constraints |-> <<>>]

NoTableCode ==
    [BASE_WIDTH |-> 0, EXT_WIDTH |-> 0, fill_base |-> <<>>, fill_ext |-> <<>>,
     base_loops |-> <<>>, ext_loops |-> <<>>,
     panic |-> FALSE]

\* the column counts without the subtraction of the table's width
column_counts_of_all_tables(on_disk) ==
    [num_base_cols |-> NUM_BASE_COLUMNS(on_disk),
     num_ext_cols |-> NUM_EXT_COLUMNS(on_disk)]

\* main.rs 99-102
initial_column_counts(on_disk) ==
    [num_base_cols |-> NUM_BASE_COLUMNS(on_disk) - on_disk.BASE_WIDTH,
     num_ext_cols |-> NUM_EXT_COLUMNS(on_disk) - on_disk.EXT_WIDTH]

\* main.rs 34-102: the buckets are built and the column counts initialised
StartOfMain(on_disk) ==
    /\ main_pc = "lower_to_degree"
    /\ lower_ix = 1
    /\ lowering = [b \in BucketNames |-> NotLowered(multicircuits[b])]
    /\ num_base_cols = initial_column_counts(on_disk).num_base_cols
    /\ num_ext_cols = initial_column_counts(on_disk).num_ext_cols
    /\ starts = <<>>
    /\ table_code = NoTableCode
    /\ constraints = [b \in BucketNames |-> <<>>]
    /\ constraint_code = [b \in BucketNames |-> NoCode]

\* no run of main() is modelled
LoweringIdle ==
    /\ multicircuits = [b \in BucketNames |-> <<>>]
    /\ target_degree = 2
    /\ degree_lowering_table = [BASE_WIDTH |-> 0, EXT_WIDTH |-> 0]
    /\ main_pc = "exit"
    /\ lower_ix = 1
    /\ lowering = [b \in BucketNames |-> NotLowered(<<>>)]
    /\ num_base_cols = 0
    /\ num_ext_cols = 0
    /\ starts = <<>>
    /\ table_code = NoTableCode
    /\ constraints = [b \in BucketNames |-> <<>>]
    /\ constraint_code = [b \in BucketNames |-> NoCode]
    /\ written = <<>>

Init ==
    /\ batch \in Batches
    /\ point \in Points
    /\ pc = "generate_constraint_code"
    /\ mode = "static"
    /\ bucket_ix = 1
    /\ rust_code = [b \in BucketNames |-> NoCode]
    /\ backend = statically_known_input_locations
    /\ raw_instructions = [m \in {"static", "dynamic"} |-> <<>>]
    /\ piece_ends = [m \in {"static", "dynamic"} |-> {}]
    /\ bucket_ends = [m \in {"static", "dynamic"} |-> <<>>]
    /\ vm = IdleVm
    /\ evaluations = [w \in {"rust", "static", "dynamic"} |-> <<>>]
    /\ LoweringIdle
    /\ CallIdle

\* main.rs, generate_constraint_code: the four buckets are tokenized
GenerateConstraintCode ==
    /\ pc = "generate_constraint_code"
    /\ rust_code' = [b \in BucketNames |-> rust_tokenize_circuits(ArenaOf(b), batch[b])]
    /\ pc' = IF \E b \in BucketNames : rust_code'[b].panic
             THEN "aborted" ELSE "new_backend"
    /\ UNCHANGED <<batch, point, mode, bucket_ix, backend, raw_instructions,
                   piece_ends, bucket_ends, vm, evaluations>>
    /\ UNCHANGED <<lowering_vars, call_vars>>

\* tasm.rs 81 and 135-136: a new backend; in dynamic mode the prologue
NewBackend ==
    /\ pc = "new_backend"
    /\ backend' = IF mode = "static" THEN statically_known_input_locations
                  ELSE dynamically_known_input_locations
    /\ LET move_row_pointers ==
               IF mode = "static" THEN <<>> ELSE write_row_pointers_to_ram
       IN  /\ raw_instructions' = [raw_instructions EXCEPT ![mode] = move_row_pointers]
           /\ bucket_ends' = [bucket_ends EXCEPT ![mode] = <<Len(move_row_pointers)>>]
    /\ piece_ends' = [piece_ends EXCEPT ![mode] = {}]
    /\ bucket_ix' = 1
    /\ pc' = "tokenize_circuits"
    /\ UNCHANGED <<batch, point, mode, rust_code, vm, evaluations>>
    /\ UNCHANGED <<lowering_vars, call_vars>>

PieceEnds(start, pieces) ==
    {start + SumLens(SubSeq(pieces, 1, k)) : k \in 1 .. Len(pieces)}

\* tasm.rs 82-85 and 137-140: backend.tokenize_circuits of the next bucket
TokenizeCircuits ==
    /\ pc = "tokenize_circuits"
    /\ LET b == Buckets[bucket_ix]
           r == tasm_tokenize_circuits(backend, ArenaOf(b), batch[b])
           code == raw_instructions[mode] \o Flatten(r.out)
       IN  /\ backend' = r.self
           /\ raw_instructions' = [raw_instructions EXCEPT ![mode] = code]
           /\ piece_ends' = [piece_ends EXCEPT
                  ![mode] = @ \cup PieceEnds(Len(raw_instructions[mode]), r.out)]
           /\ bucket_ends' = [bucket_ends EXCEPT ![mode] = Append(@, Len(code))]
           /\ pc' = IF r.panic THEN "aborted"
                    ELSE IF bucket_ix = 4 THEN "prepare_return_values"
                    ELSE "tokenize_circuits"
    /\ bucket_ix' = bucket_ix + 1
    /\ UNCHANGED <<batch, point, mode, rust_code, vm, evaluations>>
    /\ UNCHANGED <<lowering_vars, call_vars>>

\* tasm.rs 86 and 141: the epilogue
PrepareReturnValues ==
    /\ pc = "prepare_return_values"
    /\ raw_instructions' = [raw_instructions EXCEPT ![mode] = @ \o prepare_return_values]
    /\ mode' = IF mode = "static" THEN "dynamic" ELSE "static"
    /\ pc' = IF mode = "static" THEN "new_backend" ELSE "evaluate_rust"
    /\ UNCHANGED <<batch, point, bucket_ix, rust_code, backend, piece_ends,
                   bucket_ends, vm, evaluations>>
    /\ UNCHANGED <<lowering_vars, call_vars>>

\* air.rs 65-90
EvaluateAllConstraintsRust ==
    /\ pc = "evaluate_rust"
    /\ evaluations' = [evaluations EXCEPT
           !["rust"] = evaluate_constraints(rust_code["init"], point.seed)
                       \o evaluate_constraints(rust_code["cons"], point.seed)
                       \o evaluate_constraints(rust_code["tran"], point.seed)
                       \o evaluate_constraints(rust_code["term"], point.seed)]
    /\ pc' = "set_up_vm"
    /\ UNCHANGED <<batch, point, mode, bucket_ix, rust_code, backend,
                   raw_instructions, piece_ends, bucket_ends, vm>>
    /\ UNCHANGED <<lowering_vars, call_vars>>

dynamic_memory_layout(pt) ==
    [free_mem_page_ptr |-> pt.static_memory_layout.free_mem_page_ptr,
     challenges_ptr |-> pt.static_memory_layout.challenges_ptr]

\* air.rs 116-130: the generated function's instructions, and halt
Program(pt, m, raw) ==
    (IF m = "static"
     THEN static_air_constraint_evaluation_tasm(pt.static_memory_layout, raw)
     ELSE dynamic_air_constraint_evaluation_tasm(dynamic_memory_layout(pt), raw))
    \o <<Halt>>

\* air.rs 153-173: the four row pointers are pushed in dynamic mode
InitialOpStack(pt, m) ==
    IF m = "static" THEN <<>>
    ELSE << pt.static_memory_layout.curr_base_row_ptr,
            pt.static_memory_layout.curr_ext_row_ptr,
            pt.static_memory_layout.next_base_row_ptr,
            pt.static_memory_layout.next_ext_row_ptr >>

\* air.rs 132-151
SetUpTritonVm ==
    /\ pc = "set_up_vm"
    /\ vm' = [program |-> Program(point, mode, raw_instructions[mode]),
              ip |-> 1,
              op_stack |-> InitialOpStack(point, mode),
              ram |-> InitialRam(point),
              status |-> "running"]
    /\ pc' = "run"
    /\ UNCHANGED <<batch, point, mode, bucket_ix, rust_code, backend,
                   raw_instructions, piece_ends, bucket_ends, evaluations>>
    /\ UNCHANGED <<lowering_vars, call_vars>>

\* vm_state.run(): one instruction
Run ==
    /\ pc = "run"
    /\ vm.status = "running"
    /\ vm' = VmStep(vm)
    /\ UNCHANGED <<batch, point, pc, mode, bucket_ix, rust_code, backend,
                   raw_instructions, piece_ends, bucket_ends, evaluations>>
    /\ UNCHANGED <<lowering_vars, call_vars>>

NUM_CONSTRAINTS ==
    Len(batch["init"]) + Len(batch["cons"]) + Len(batch["tran"]) + Len(batch["term"])

\* air.rs 99-101 and 111-113: the output list is read at the popped pointer
ReadOutputList ==
    /\ pc = "run"
    /\ vm.status = "halted"
    /\ Len(vm.op_stack) > 0
    /\ evaluations' = [evaluations EXCEPT
           ![mode] = read_xfe_list_at_address(vm.ram, Top(vm.op_stack, 0),
                                              NUM_CONSTRAINTS)]
    /\ mode' = IF mode = "static" THEN "dynamic" ELSE "static"
    /\ pc' = IF mode = "static" THEN "set_up_vm" ELSE "done"
    /\ UNCHANGED <<batch, point, bucket_ix, rust_code, backend, raw_instructions,
                   piece_ends, bucket_ends, vm>>
    /\ UNCHANGED <<lowering_vars, call_vars>>

Next ==
    \/ GenerateConstraintCode
    \/ NewBackend
    \/ TokenizeCircuits
    \/ PrepareReturnValues
    \/ EvaluateAllConstraintsRust
    \/ SetUpTritonVm
    \/ Run
    \/ ReadOutputList

Spec == Init /\ [][Next]_vars


(***************************************************************************)
(* The state machine of main() (main.rs 34-198): the buckets are lowered   *)
(* one after the other, the table code and the constraint code are         *)
(* generated and written, and the generator is run a second time, built    *)
(* with the table it has written.                                          *)
(***************************************************************************)
CodegenIdle ==
    /\ batch = [b \in BucketNames |-> <<>>]
    /\ point = [seed |-> 0, static_memory_layout |-> LayoutPageFirst]
    /\ pc = "done"
    /\ mode = "static"
    /\ bucket_ix = 1
    /\ rust_code = [b \in BucketNames |-> NoCode]
    /\ backend = statically_known_input_locations
    /\ raw_instructions = [m \in {"static", "dynamic"} |-> <<>>]
    /\ piece_ends = [m \in {"static", "dynamic"} |-> {}]
    /\ bucket_ends = [m \in {"static", "dynamic"} |-> <<>>]
    /\ vm = IdleVm
    /\ evaluations = [w \in {"rust", "static", "dynamic"} |-> <<>>]

LoweringInit ==
    /\ multicircuits \in Multicircuits
    /\ target_degree \in 2 .. MaxTargetDegree
    /\ degree_lowering_table \in
           [BASE_WIDTH : 0 .. MaxWidthOnDisk, EXT_WIDTH : 0 .. MaxWidthOnDisk]
    /\ StartOfMain(degree_lowering_table)
    /\ written = <<>>
    /\ CodegenIdle
    /\ CallIdle

\* one turn of the loop of lower_to_degree
Substitute ==
    /\ main_pc = "lower_to_degree"
    /\ LET b == Buckets[lower_ix]
       IN  /\ exceeds_target_degree(lowering[b], target_degree)
           /\ lowering' = [lowering EXCEPT
                  ![b] = lower_to_degree_step(@, target_degree, num_base_cols,
                                              num_ext_cols)]
    /\ UNCHANGED <<multicircuits, target_degree, degree_lowering_table, main_pc,
                   lower_ix, num_base_cols, num_ext_cols, starts, table_code,
                   constraints, constraint_code, written>>
    /\ UNCHANGED <<codegen_vars, call_vars>>

\* lower_to_degree returns; main.rs 109-110, 118-119, 127-128, 135
ReturnSubstitutions ==
    /\ main_pc = "lower_to_degree"
    /\ LET b == Buckets[lower_ix]
       IN  /\ ~exceeds_target_degree(lowering[b], target_degree)
           /\ starts' = Append(starts, [base |-> num_base_cols, ext |-> num_ext_cols])
           /\ num_base_cols' = IF b = "term" THEN num_base_cols
                               ELSE num_base_cols + Len(lowering[b].base_constraints)
           /\ num_ext_cols' = IF b = "term" THEN num_ext_cols
                              ELSE num_ext_cols + Len(lowering[b].ext_constraints)
    /\ lower_ix' = IF lower_ix = 4 THEN lower_ix ELSE lower_ix + 1
    /\ main_pc' = IF lower_ix = 4 THEN "generate_degree_lowering_table_code"
                  ELSE main_pc
    /\ UNCHANGED <<multicircuits, target_degree, degree_lowering_table, lowering,
                   table_code, constraints, constraint_code, written>>
    /\ UNCHANGED <<codegen_vars, call_vars>>

\* main.rs 137-146
GenerateDegreeLoweringTableCode ==
    /\ main_pc = "generate_degree_lowering_table_code"
    /\ table_code' = generate_degree_lowering_table_code(degree_lowering_table,
                                                         lowering)
    /\ main_pc' = IF table_code'.panic THEN "aborted" ELSE "concat"
    /\ UNCHANGED <<multicircuits, target_degree, degree_lowering_table, lower_ix,
                   lowering, num_base_cols, num_ext_cols, starts, constraints,
                   constraint_code, written>>
    /\ UNCHANGED <<codegen_vars, call_vars>>

\* the extension-field substitutions put before the base-field ones
concat_ext_substitutions_first(c) ==
    c.multicircuit \o c.ext_constraints \o c.base_constraints

\* main.rs 148-171: vec![constraints, base_substitutions, ext_substitutions].concat()
concat_substitutions(c) ==
    c.multicircuit \o c.base_constraints \o c.ext_constraints

\* main.rs 148-176
ConcatSubstitutions ==
    /\ main_pc = "concat"
    /\ constraints' = [b \in BucketNames |-> concat_substitutions(lowering[b])]
    /\ main_pc' = "generate_constraint_code"
    /\ UNCHANGED <<multicircuits, target_degree, degree_lowering_table, lower_ix,
                   lowering, num_base_cols, num_ext_cols, starts, table_code,
                   constraint_code, written>>
    /\ UNCHANGED <<codegen_vars, call_vars>>

\* main.rs 178-183
GenerateCodeOfLoweredConstraints ==
    /\ main_pc = "generate_constraint_code"
    /\ constraint_code' =
           [b \in BucketNames |->
               rust_tokenize_circuits(lowering[b].arena, constraints[b])]
    /\ main_pc' = IF \E b \in BucketNames : constraint_code'[b].panic
                  THEN "aborted" ELSE "write"
    /\ UNCHANGED <<multicircuits, target_degree, degree_lowering_table, lower_ix,
                   lowering, num_base_cols, num_ext_cols, starts, table_code,
                   constraints, written>>
    /\ UNCHANGED <<codegen_vars, call_vars>>

\* main.rs 185-197: both files are written; the next build of the generator
\* is linked with the written table
WriteToDisk ==
    /\ main_pc = "write"
    /\ written' = Append(written, [table_code |-> table_code,
                                   constraint_code |-> constraint_code])
    /\ degree_lowering_table' = [BASE_WIDTH |-> table_code.BASE_WIDTH,
                                 EXT_WIDTH |-> table_code.EXT_WIDTH]
    /\ main_pc' = "exit"
    /\ UNCHANGED <<multicircuits, target_degree, lower_ix, lowering, num_base_cols,
                   num_ext_cols, starts, table_code, constraints, constraint_code>>
    /\ UNCHANGED <<codegen_vars, call_vars>>

\* the generator is run again on the same constraints
RunAgain ==
    /\ main_pc = "exit"
    /\ Len(written) < 2
    /\ main_pc' = "lower_to_degree"
    /\ lower_ix' = 1
    /\ lowering' = [b \in BucketNames |-> NotLowered(multicircuits[b])]
    /\ num_base_cols' = initial_column_counts(degree_lowering_table).num_base_cols
    /\ num_ext_cols' = initial_column_counts(degree_lowering_table).num_ext_cols
    /\ starts' = <<>>
    /\ table_code' = NoTableCode
    /\ constraints' = [b \in BucketNames |-> <<>>]
    /\ constraint_code' = [b \in BucketNames |-> NoCode]
    /\ UNCHANGED <<multicircuits, target_degree, degree_lowering_table, written>>
    /\ UNCHANGED <<codegen_vars, call_vars>>

LoweringNext ==
    \/ Substitute
    \/ ReturnSubstitutions
    \/ GenerateDegreeLoweringTableCode
    \/ ConcatSubstitutions
    \/ GenerateCodeOfLoweredConstraints
    \/ WriteToDisk
    \/ RunAgain

LoweringSpec == LoweringInit /\ [][LoweringNext]_vars

\* the condition under which the loop of lower_to_degree takes a turn; a turn
\* adds a column and a rule to the bucket, so it always changes the state
SubstituteEnabled ==
    /\ main_pc = "lower_to_degree"
    /\ exceeds_target_degree(lowering[Buckets[lower_ix]], target_degree)

\* main is one sequential program: a turn of the loop of lower_to_degree that
\* can be taken is taken, and so is the return from it. The weak fairness of
\* Substitute is written with its enabling condition spelled out.
LoweringFairSpec ==
    /\ LoweringSpec
    /\ []<>~SubstituteEnabled \/ []<><<Substitute>>_vars
    /\ WF_vars(ReturnSubstitutions)

(***************************************************************************)
(* Single calls: a function of the repository applied to one input         *)
(***************************************************************************)

\* ---- Proof::padded_height (proof.rs 33-45)

usize_BITS == 2 ^ Log2UsizeBits

MerkleRoot == [kind |-> "MerkleRoot", value |-> 0]

Log2PaddedHeight(k) == [kind |-> "Log2PaddedHeight", value |-> k]

\* the items of the streams: the exponents reach the width of usize
ProofItems == {MerkleRoot} \cup {Log2PaddedHeight(k) : k \in 0 .. usize_BITS}

\* a proof is what ProofStream::try_from makes of it
Proofs ==
    {[decodes |-> FALSE, items |-> <<>>]}
        \cup {[decodes |-> TRUE, items |-> s] : s \in SeqsUpTo(ProofItems, MaxItems)}

Ok(v) == [t |-> "Ok", value |-> v, msg |-> ""]

Err(msg) == [t |-> "Err", value |-> 0, msg |-> msg]

Panic(msg) == [t |-> "panic", value |-> 0, msg |-> msg]

as_log2_padded_height(item) ==
    IF item.kind = "Log2PaddedHeight" THEN Ok(item.value)
    ELSE Err("expected log2 padded height")

\* 1 << log_2_padded_height in usize: a shift by the width or more panics
\* where overflow checks are compiled in, and shifts by the amount modulo the
\* width where they are not
shl(overflow_checks, log_2_padded_height) ==
    IF log_2_padded_height < usize_BITS
    THEN Ok((2 ^ log_2_padded_height) % (2 ^ usize_BITS))
    ELSE IF overflow_checks THEN Panic("attempt to shift left with overflow")
    ELSE Ok(2 ^ (log_2_padded_height % usize_BITS))

None == [is_some |-> FALSE, value |-> 0]

Some(v) == [is_some |-> TRUE, value |-> v]

\* proof.rs 36-43: the loop, from item i on
RECURSIVE padded_height_loop(_, _, _, _)
padded_height_loop(items, i, padded_height, overflow_checks) ==
    IF i > Len(items)
    THEN IF padded_height.is_some THEN Ok(padded_height.value)
         ELSE Err("The proof must contain a log_2_padded_height.")
    ELSE LET log_2_padded_height == as_log2_padded_height(items[i])
         IN  IF log_2_padded_height.t # "Ok"
             THEN padded_height_loop(items, i + 1, padded_height, overflow_checks)
             ELSE IF padded_height.is_some
             THEN Err("The proof must contain at most one log_2_padded_height.")
             ELSE LET shifted == shl(overflow_checks, log_2_padded_height.value)
                  IN  IF shifted.t = "panic" THEN shifted
                      ELSE padded_height_loop(items, i + 1, Some(shifted.value),
                                              overflow_checks)

padded_height(proof, overflow_checks) ==
    IF ~proof.decodes THEN Err("ProofStream::try_from")
    ELSE padded_height_loop(proof.items, 1, None, overflow_checks)

PaddedHeightCalls ==
    {[fn |-> "padded_height", proof |-> p, overflow_checks |-> oc]
        : p \in Proofs, oc \in BOOLEAN}

\* ---- substitution_rule_to_code (main.rs 620-632)

\* rules of the shape lower_to_degree produces, and circuits of other shapes
RuleArena ==
    [h \in 0 .. 21 |->
       IF h <= 13 THEN LoweringArena[h]
       ELSE CASE h = 14 -> InputNode(14, TRUE, TRUE, 2)
              [] h = 15 -> BinOpNode(15, "Sub", 14, 5)
              [] h = 16 -> BinOpNode(16, "Sub", 14, 10)
              [] h = 17 -> BinOpNode(17, "Sub", 5, 14)
              [] h = 18 -> BinOpNode(18, "Add", 14, 5)
              [] h = 19 -> BinOpNode(19, "Sub", 4, 5)
              [] h = 20 -> BinOpNode(20, "Sub", 3, 5)
              [] OTHER -> BinOpNode(21, "Sub", 2, 15)]

SubstitutionRuleCalls ==
    {[fn |-> "substitution_rule_to_code", circuit |-> h] : h \in DOMAIN RuleArena}

\* ---- tokenize_circuits (main.rs 398-449, tasm.rs 325-342)

\* a builder that handed out one id twice
DuplicateIdArena == [SingleRowArena EXCEPT ![7] = BinOpNode(6, "Mul", 5, 2)]

CallArena(name) == IF name = "DuplicateId" THEN DuplicateIdArena ELSE SingleRowArena

TokenizeCircuitsCalls ==
    {[fn |-> "tokenize_circuits", backend |-> b, arena |-> a, constraints |-> cs]
        : b \in {"rust", "tasm static", "tasm dynamic"},
          a \in {"SingleRow", "DuplicateId"},
          cs \in SeqsUpTo(SingleRowRoots, MaxCallLen)}

\* buckets of the native backend with roots of degree 0, 1 and 2: an input, a
\* challenge, a constant, a sum and a product
DegreeBoundRoots == {0, 3, 4, 5, 6}

DegreeBoundCalls ==
    {[fn |-> "tokenize_circuits", backend |-> "rust", arena |-> "SingleRow",
      constraints |-> cs] : cs \in SeqsUpTo(DegreeBoundRoots, MaxLen)}

\* ---- store_ext_field_element, then load_ext_field_element_from_list
\*      (tasm.rs 463-472 and 498-509)

RECURSIVE RunFor(_, _)
RunFor(machine, steps) ==
    IF steps = 0 \/ machine.status # "running" THEN machine
    ELSE RunFor(VmStep(machine), steps - 1)

\* an element on the stack, and the code that stores it and loads it again
StoreAndLoadVm(element_index, xfe) ==
    [program |-> static_air_constraint_evaluation_tasm(
                     LayoutPageFirst,
                     store_ext_field_element(element_index)
                         \o load_ext_field_element_from_list("FreeMemPage",
                                                             element_index))
                 \o <<Halt>>,
     ip |-> 1,
     op_stack |-> PushXfe(<<>>, xfe),
     ram |-> <<>>,
     status |-> "running"]

StoreAndLoadCalls ==
    {[fn |-> "store_and_load", element_index |-> i, xfe |-> <<c0, c1, c2>>]
        : i \in 0 .. OUT_ARRAY_OFFSET, c0 \in BFE, c1 \in BFE, c2 \in BFE}

\* ---- the calls

CallInit ==
    /\ \/ call \in PaddedHeightCalls
       \/ call \in SubstitutionRuleCalls
       \/ call \in TokenizeCircuitsCalls
       \/ call \in DegreeBoundCalls
       \/ call \in StoreAndLoadCalls
    /\ outcome = NotCalled
    /\ CodegenIdle
    /\ LoweringIdle

PaddedHeight ==
    /\ call.fn = "padded_height"
    /\ outcome = NotCalled
    /\ outcome' = padded_height(call.proof, call.overflow_checks)
    /\ UNCHANGED <<call, codegen_vars, lowering_vars>>

SubstitutionRuleToCode ==
    /\ call.fn = "substitution_rule_to_code"
    /\ outcome = NotCalled
    /\ outcome' = substitution_rule_to_code(RuleArena, call.circuit)
    /\ UNCHANGED <<call, codegen_vars, lowering_vars>>

RustTokenizeCircuits ==
    /\ call.fn = "tokenize_circuits"
    /\ call.backend = "rust"
    /\ outcome = NotCalled
    /\ LET r == rust_tokenize_circuits(CallArena(call.arena), call.constraints)
       IN  outcome' = [panic |-> r.panic,
                       tokens |-> r.shared_declarations \o r.base_constraints
                                    \o r.ext_constraints,
                       code |-> r]
    /\ UNCHANGED <<call, codegen_vars, lowering_vars>>

TasmTokenizeCircuits ==
    /\ call.fn = "tokenize_circuits"
    /\ call.backend # "rust"
    /\ outcome = NotCalled
    /\ LET self == IF call.backend = "tasm static"
                   THEN statically_known_input_locations
                   ELSE dynamically_known_input_locations
           r == tasm_tokenize_circuits(self, CallArena(call.arena), call.constraints)
       IN  outcome' = [panic |-> r.panic, tokens |-> Flatten(r.out), code |-> r]
    /\ UNCHANGED <<call, codegen_vars, lowering_vars>>

StoreAndLoad ==
    /\ call.fn = "store_and_load"
    /\ outcome = NotCalled
    /\ LET machine == StoreAndLoadVm(call.element_index, call.xfe)
           stored == RunFor(machine, Len(store_ext_field_element(call.element_index)))
       IN  outcome' = [stored |-> stored,
                       loaded |-> RunFor(stored, Len(machine.program) - stored.ip)]
    /\ UNCHANGED <<call, codegen_vars, lowering_vars>>

CallNext ==
    \/ StoreAndLoad
    \/ PaddedHeight
    \/ SubstitutionRuleToCode
    \/ RustTokenizeCircuits
    \/ TasmTokenizeCircuits

CallSpec == CallInit /\ [][CallNext]_vars


(***************************************************************************)
(* What the claims speak of.                                               *)
(***************************************************************************)
Modes == {"static", "dynamic"}

\* the value of a circuit at the point numbered seed
RECURSIVE Value(_, _, _)
Value(A, h, seed) ==
    CASE A[h].kind \in {"BConstant", "XConstant"} -> A[h].xfe
      [] A[h].kind = "Input" -> ElementOf(seed, RowList(A[h].cur, A[h].base), A[h].idx)
      [] A[h].kind = "Challenge" -> ElementOf(seed, "Challenges", A[h].idx)
      [] A[h].op = "Add" -> XAdd(Value(A, A[h].lhs, seed), Value(A, A[h].rhs, seed))
      [] A[h].op = "Sub" -> XSub(Value(A, A[h].lhs, seed), Value(A, A[h].rhs, seed))
      [] OTHER -> XMul(Value(A, A[h].lhs, seed), Value(A, A[h].rhs, seed))

\* the position, within its bucket, at which the j-th constraint is evaluated:
\* base-typed constraints first, insertion order kept inside both groups
Rank(A, cs, j) ==
    LET IsBase(i) == evaluates_to_base_element(A, cs[i])
    IN  IF IsBase(j) THEN Cardinality({i \in 1 .. j : IsBase(i)})
        ELSE Cardinality({i \in 1 .. Len(cs) : IsBase(i)})
             + Cardinality({i \in 1 .. j : ~IsBase(i)})

\* the number of constraints in the buckets before the k-th
RECURSIVE BucketOffset(_)
BucketOffset(k) ==
    IF k = 1 THEN 0 ELSE BucketOffset(k - 1) + Len(batch[Buckets[k - 1]])

\* the scratch page of the layout
Page == Region(point.static_memory_layout.free_mem_page_ptr, MEM_PAGE_SIZE)

\* the generated function's binding of free_mem_page_ptr
FreeMemPagePtr(m) ==
    IF m = "static" THEN static_pointer(point.static_memory_layout, "FreeMemPage")
    ELSE dynamic_pointer(dynamic_memory_layout(point), "FreeMemPage")

OutputAddress(m) == FreeMemPagePtr(m) + EXTENSION_DEGREE * OUT_ARRAY_OFFSET

Integral == is_integral(point.static_memory_layout)

\* the run of mode m has been read
HasRun(m) ==
    \/ pc = "done"
    \/ m = "static" /\ mode = "dynamic" /\ pc \in {"set_up_vm", "run"}

AllBucketsNonEmpty == \A b \in BucketNames : batch[b] # <<>>

(***************************************************************************)
(* C1.  At every integral evaluation point the vector read after running   *)
(* the static assembly, and the one read after running the dynamic         *)
(* assembly, equal the native evaluation (initial, consistency,            *)
(* transition, terminal concatenated), element by element.                 *)
(***************************************************************************)
C1_BackendsAgree ==
    \A m \in Modes :
        (HasRun(m) /\ Integral) =>
            /\ Len(evaluations[m]) = NUM_CONSTRAINTS
            /\ Len(evaluations["rust"]) = NUM_CONSTRAINTS
            /\ \A k \in 1 .. NUM_CONSTRAINTS :
                   /\ evaluations[m][k] = evaluations["rust"][k]
                   /\ evaluations[m][k] \in BFE \X BFE \X BFE

C1_Witness ==
    /\ pc = "done"
    /\ Integral
    /\ AllBucketsNonEmpty
    /\ evaluations["dynamic"] = evaluations["rust"]
    /\ Cardinality({evaluations["rust"][k] : k \in 1 .. NUM_CONSTRAINTS}) >= 4

(***************************************************************************)
(* C2.  Whatever the memory layout, the instruction sequences the static   *)
(* and the dynamic entry point return declare no label and contain none of *)
(* call, return, recurse, recurse_or_return, skiz, halt.                   *)
(***************************************************************************)
ControlFlowOps == {"call", "return", "recurse", "recurse_or_return", "skiz", "halt"}

Returned(m, layout) ==
    IF m = "static"
    THEN static_air_constraint_evaluation_tasm(layout, raw_instructions[m])
    ELSE dynamic_air_constraint_evaluation_tasm(layout, raw_instructions[m])

C2_StraightLine ==
    pc = "evaluate_rust" =>
        \A m \in Modes :
            \A layout \in {LayoutPageFirst, LayoutPageLast} :
                LET returned == Returned(m, layout)
                IN  /\ Len(returned) = Len(raw_instructions[m])
                    /\ \A i \in 1 .. Len(returned) :
                           /\ returned[i].kind = "Instruction"
                           /\ returned[i].op \notin ControlFlowOps

C2_Witness ==
    /\ pc = "evaluate_rust"
    /\ AllBucketsNonEmpty
    /\ Len(raw_instructions["static"]) > 100
    /\ Len(raw_instructions["dynamic"]) > Len(raw_instructions["static"])

(***************************************************************************)
(* C3.  While the emitted assembly runs at an integral layout, every       *)
(* write_mem targets addresses inside the scratch page, and every word     *)
(* outside the page keeps the value it had before the run.                 *)
(***************************************************************************)
C3_WritesStayInPage ==
    pc = "run" =>
        /\ (vm.status = "running" /\ vm.program[vm.ip].op = "write_mem"
              /\ Len(vm.op_stack) > 0 /\ Integral)
             => LET first == Top(vm.op_stack, 0)
                    last == first + vm.program[vm.ip].arg - 1
                    page_start == point.static_memory_layout.free_mem_page_ptr
                IN  page_start <= first /\ last < page_start + MEM_PAGE_SIZE
        /\ (vm.status = "halted" /\ Integral) =>
             LET before == InitialRam(point)
                 page == Page
             IN  /\ DOMAIN before \ page = DOMAIN vm.ram \ page
                 /\ \A a \in DOMAIN before \ page : vm.ram[a] = before[a]

\* the dynamic run has stored the row pointers, a shared node and all outputs
C3_Witness ==
    /\ pc = "run"
    /\ mode = "dynamic"
    /\ vm.status = "halted"
    /\ Integral
    /\ NUM_CONSTRAINTS >= 4
    /\ Cardinality(DOMAIN vm.ram \cap Page) >= 4 + EXTENSION_DEGREE * (NUM_CONSTRAINTS + 1)

C5_StackSignature ==
    pc = "run" =>
        /\ vm.status # "op stack underflow"
        /\ vm.ip = 1 => Len(vm.op_stack) = (IF mode = "static" THEN 0 ELSE 4)
        /\ (vm.ip - 1 = bucket_ends[mode][1]) => Len(vm.op_stack) = 0
        /\ (vm.ip - 1 \in piece_ends[mode]) => Len(vm.op_stack) = 0
        /\ vm.status = "halted" => Len(vm.op_stack) = 1

\* the dynamic run stands behind the last piece of a batch of eight constraints
C5_Witness ==
    /\ pc = "run"
    /\ mode = "dynamic"
    /\ vm.status = "running"
    /\ vm.ip - 1 \in piece_ends[mode]
    /\ vm.ip - 1 = bucket_ends[mode][5]
    /\ Cardinality(piece_ends[mode]) > NUM_CONSTRAINTS
    /\ NUM_CONSTRAINTS >= 4


(***************************************************************************)
(* More of what the claims speak of.                                       *)
(***************************************************************************)
\* both backends have emitted all their code
CodeGenerated == pc = "evaluate_rust"

\* the positions of the code the assembly backend emitted for the k-th bucket
Segment(m, k) == (bucket_ends[m][k] + 1) .. bucket_ends[m][k + 1]

\* the binary-operation nodes of a bucket
BinOpsOf(A, cs) ==
    {h \in UNION {Subtree(A, cs[i]) : i \in DOMAIN cs} : A[h].kind = "BinaryOperation"}

\* where the k-th bucket's assembly computes, stores and loads node id
TasmComputes(m, k, id) ==
    {p \in Segment(m, k) :
        /\ raw_instructions[m][p].op \in {"xx_add", "xx_mul"}
        /\ raw_instructions[m][p].of = id}

TasmStores(m, k, id) ==
    {p \in Segment(m, k) :
        /\ raw_instructions[m][p] = PushAddr("FreeMemPage", EXTENSION_DEGREE * id)
        /\ raw_instructions[m][p + 1].op = "write_mem"}

TasmLoads(m, k, id) ==
    {p \in Segment(m, k) :
        /\ raw_instructions[m][p] = PushAddr("FreeMemPage", EXTENSION_DEGREE * id + 2)
        /\ raw_instructions[m][p + 1].op = "read_mem"}

\* how often an emitted native expression computes node id
RECURSIVE CountOf(_, _)
CountOf(e, id) ==
    IF e.t # "binop" THEN 0
    ELSE (IF e.of = id THEN 1 ELSE 0) + CountOf(e.lhs, id) + CountOf(e.rhs, id)

RECURSIVE CountAll(_, _)
CountAll(es, id) ==
    IF es = <<>> THEN 0 ELSE CountOf(Head(es), id) + CountAll(Tail(es), id)

NativeExpressions(code) ==
    [i \in 1 .. Len(code.shared_declarations) |-> code.shared_declarations[i].evaluation]
    \o code.base_constraints \o code.ext_constraints

NativeComputes(code, id) == CountAll(NativeExpressions(code), id)

NativeDeclares(code, id) ==
    {i \in 1 .. Len(code.shared_declarations) : code.shared_declarations[i].name = id}

\* the degree of an emitted native expression, bindings resolved
RECURSIVE ExprDegree(_, _)
ExprDegree(e, decls) ==
    CASE e.t = "constant" -> 0
      [] e.t \in {"input", "challenge"} -> 1
      [] e.t = "name" ->
           IF \E i \in 1 .. Len(decls) : decls[i].name = e.id
           THEN ExprDegree(decls[CHOOSE i \in 1 .. Len(decls) : decls[i].name = e.id]
                               .evaluation, decls)
           ELSE -1
      [] e.op = "Mul" -> ExprDegree(e.lhs, decls) + ExprDegree(e.rhs, decls)
      [] OTHER -> Max({ExprDegree(e.lhs, decls), ExprDegree(e.rhs, decls)})

(***************************************************************************)
(* C6.  Within each bucket both backends evaluate the base-typed           *)
(* constraints before the extension-typed ones, insertion order kept       *)
(* inside both groups: the j-th constraint of the bucket is found at       *)
(* position Rank(j) of the native evaluation of the bucket and at the      *)
(* same position of the bucket's slice of the assembly output.             *)
(***************************************************************************)
C6_SameOrder ==
    (pc = "done" /\ Integral) =>
        \A k \in 1 .. 4 :
            LET A == ArenaOf(Buckets[k])
                cs == batch[Buckets[k]]
                code == rust_code[Buckets[k]]
                native == evaluate_constraints(code, point.seed)
            IN  /\ Len(native) = Len(cs)
                /\ \A j \in 1 .. Len(cs) :
                       LET at == Rank(A, cs, j)
                           v == Value(A, cs[j], point.seed)
                       IN  /\ (at <= Len(code.base_constraints))
                                 <=> evaluates_to_base_element(A, cs[j])
                           /\ native[at] = v
                           /\ evaluations["static"][BucketOffset(k) + at] = v
                           /\ evaluations["dynamic"][BucketOffset(k) + at] = v

\* an extension-typed constraint was inserted before a base-typed one of
\* another value
C6_Witness ==
    /\ pc = "done"
    /\ Integral
    /\ batch["cons"] = <<7, 10>>
    /\ batch["tran"] = <<7, 5>>
    /\ ~evaluates_to_base_element(SingleRowArena, 7)
    /\ evaluates_to_base_element(SingleRowArena, 10)
    /\ Value(SingleRowArena, 7, point.seed) # Value(SingleRowArena, 10, point.seed)
    /\ evaluations["dynamic"][BucketOffset(2) + 1] = Value(SingleRowArena, 10, point.seed)

C8_EmptyBucketState ==
    CodeGenerated =>
        /\ \A k \in 1 .. 4 :
               batch[Buckets[k]] = <<>> =>
                   /\ rust_code[Buckets[k]].is_empty_vec
                   /\ ~rust_code[Buckets[k]].panic
                   /\ evaluate_constraints(rust_code[Buckets[k]], point.seed) = <<>>
                   /\ quotient_degree_bounds(rust_code[Buckets[k]], 1, 0) = <<>>
                   /\ num_quotients(batch[Buckets[k]]) = 0
                   /\ \A m \in Modes : Segment(m, k) = {}
        /\ (\A b \in BucketNames : batch[b] = <<>>) =>
               /\ Len(raw_instructions["static"]) = 1
               /\ raw_instructions["static"] = prepare_return_values
               /\ Len(raw_instructions["dynamic"]) = 3 * num_pointer_pointers + 1
               /\ raw_instructions["dynamic"]
                      = write_row_pointers_to_ram \o prepare_return_values

C8_EmptyBucketStep ==
    (pc = "tokenize_circuits" /\ batch[Buckets[bucket_ix]] = <<>>) =>
        /\ pc' \in {"tokenize_circuits", "prepare_return_values"}
        /\ backend'.elements_written = backend.elements_written
        /\ raw_instructions' = raw_instructions

\* C8: both parts, at every step and in every state
C8_EmptyBucket == [][C8_EmptyBucketStep]_vars /\ []C8_EmptyBucketState

\* an empty bucket between two others that are not
C8_Witness ==
    /\ pc = "prepare_return_values"
    /\ mode = "dynamic"
    /\ batch["init"] # <<>>
    /\ batch["cons"] = <<>>
    /\ batch["tran"] # <<>>
    /\ bucket_ends["dynamic"][3] = bucket_ends["dynamic"][2]
    /\ backend.elements_written = NUM_CONSTRAINTS

(***************************************************************************)
(* C9.  In every bucket, every binary-operation node whose reference       *)
(* count in the bucket is at least 2 is declared exactly once per pass of  *)
(* either backend (a let-binding, a store into its slot), and is not       *)
(* computed anywhere but in that declaration.                              *)
(***************************************************************************)
C9_SharedNodesDeclaredOnce ==
    CodeGenerated =>
        \A k \in 1 .. 4 :
            LET A == ArenaOf(Buckets[k])
                cs == batch[Buckets[k]]
                rc == ref_count(A, cs)
                code == rust_code[Buckets[k]]
            IN  \A h \in BinOpsOf(A, cs) :
                    rc[h] >= 2 =>
                        /\ Cardinality(NativeDeclares(code, A[h].id)) = 1
                        /\ NativeComputes(code, A[h].id) = 1
                        /\ \A m \in Modes :
                               /\ Cardinality(TasmStores(m, k, A[h].id)) = 1
                               /\ Cardinality(TasmComputes(m, k, A[h].id)) = 1

(***************************************************************************)
(* C10.  In a bucket that uses c = (a + b) * (a + b) twice, (a + b) has    *)
(* reference count 2, its computation is emitted once and every further    *)
(* use reads the stored value, and the degree of c is 2.                   *)
(***************************************************************************)
C10_Scenario ==
    (CodeGenerated /\ batch["init"] = <<6, 6>>) =>
        /\ ref_count(SingleRowArena, batch["init"])[5] = 2
        /\ degree(SingleRowArena, 6) = 2
        /\ rust_code["init"].degree_bounds[1].d = 2
        /\ NativeComputes(rust_code["init"], 5) = 1
        /\ \A m \in Modes :
               /\ Cardinality(TasmComputes(m, 1, 5)) = 1
               /\ Cardinality(TasmStores(m, 1, 5)) = 1


(***************************************************************************)
(* Degree lowering.                                                        *)
(***************************************************************************)
\* lower_to_degree has returned for the k-th bucket
Lowered(k) == main_pc # "lower_to_degree" \/ lower_ix > k

\* the constraints of a lowered bucket: the original ones and the rules
AllOf(c) == c.multicircuit \o c.base_constraints \o c.ext_constraints

NumSubstitutions(c) == Len(c.base_constraints) + Len(c.ext_constraints)

\* the columns the lowering of the bucket allocated
FreshColumns(c) ==
    {h \in DOMAIN c.arena : h \notin DOMAIN LoweringArena /\ c.arena[h].kind = "Input"}

\* the k-th bucket was built with one constraint, of degree d
SingleOfDegree(k, d) ==
    /\ Len(multicircuits[Buckets[k]]) = 1
    /\ degree(LoweringArena, multicircuits[Buckets[k]][1]) = d

RECURSIVE Ascending(_)
Ascending(S) ==
    IF S = {} THEN <<>> ELSE <<Min(S)>> \o Ascending(S \ {Min(S)})

\* the substitution rules the lowering of the bucket produced for base-field
\* (resp. extension-field) columns, in the order they were produced
RulesProduced(c, base) ==
    Ascending({h \in DOMAIN c.arena :
                  /\ h \notin DOMAIN LoweringArena
                  /\ c.arena[h].op = "Sub"
                  /\ c.arena[c.arena[h].lhs].base = base})

ConstraintsHanded == main_pc \in {"generate_constraint_code", "write", "exit"}

\* C13: degree lowering never reorders a bucket: the bucket handed to the
\* backend is the original constraints at their original positions, followed
\* by the bucket's base-field substitution rules and then its extension-field
\* substitution rules, each in the order they were produced.
C13_NeverReorders ==
    ConstraintsHanded =>
        \A b \in BucketNames :
            LET c == lowering[b]
                n == Len(multicircuits[b])
                nb == Len(RulesProduced(c, TRUE))
            IN  /\ Len(constraints[b])
                     = n + nb + Len(RulesProduced(c, FALSE))
                /\ SubSeq(constraints[b], 1, n) = multicircuits[b]
                /\ SubSeq(constraints[b], n + 1, n + nb) = RulesProduced(c, TRUE)
                /\ SubSeq(constraints[b], n + nb + 1, Len(constraints[b]))
                     = RulesProduced(c, FALSE)

C13_Witness ==
    /\ main_pc = "write"
    /\ \E b \in BucketNames :
          /\ Len(multicircuits[b]) >= 2
          /\ Len(RulesProduced(lowering[b], TRUE)) >= 2
          /\ Len(RulesProduced(lowering[b], FALSE)) >= 1
          /\ Len(constraints[b]) >= 5

\* C14: two runs of the generator on the same constraints write the same
\* artifacts, with the same numbers of new base and extension columns; the
\* first new column index is the total column count minus the width of the
\* degree-lowering table generated before, whatever that width is.
C14_Deterministic ==
    /\ Len(written) = 2 => written[1] = written[2]
    /\ starts # <<>> =>
          /\ starts[1].base = NUM_BASE_COLUMNS(degree_lowering_table)
                                 - degree_lowering_table.BASE_WIDTH
          /\ starts[1].ext = NUM_EXT_COLUMNS(degree_lowering_table)
                                - degree_lowering_table.EXT_WIDTH
          /\ starts[1] = [base |-> NumBaseColumns, ext |-> NumExtColumns]

C14_Witness ==
    /\ Len(written) = 2
    /\ written[1].table_code.BASE_WIDTH > MaxWidthOnDisk
    /\ written[2].table_code.EXT_WIDTH > MaxWidthOnDisk

\* the substitutions of the buckets before the k-th
RECURSIVE SubstitutionsBefore(_, _)
SubstitutionsBefore(k, base) ==
    IF k = 1 THEN 0
    ELSE SubstitutionsBefore(k - 1, base)
         + (IF base THEN Len(lowering[Buckets[k - 1]].base_constraints)
            ELSE Len(lowering[Buckets[k - 1]].ext_constraints))

TableCodeGenerated ==
    main_pc \in {"concat", "generate_constraint_code", "write", "exit"}

\* the columns the fill code writes
FilledColumns(fill) ==
    UNION {{fill[b][j].col : j \in DOMAIN fill[b]} : b \in BucketNames}

\* C15: the buckets are lowered in the order initial, consistency, transition,
\* terminal; each call is given the initial column counts plus the numbers of
\* substitutions of the earlier buckets; the fill code writes a bucket's j-th
\* substitution to that start plus j, which is the column the rule refers to;
\* the new columns are pairwise distinct and contiguous.
C15_ColumnIndices ==
    /\ \A k \in 1 .. Len(starts) :
          /\ Lowered(k)
          /\ starts[k].base = NumBaseColumns + SubstitutionsBefore(k, TRUE)
          /\ starts[k].ext = NumExtColumns + SubstitutionsBefore(k, FALSE)
    /\ TableCodeGenerated =>
          /\ Len(starts) = 4
          /\ \A k \in 1 .. 4 :
                LET b == Buckets[k]
                    c == lowering[b]
                IN  /\ Len(table_code.fill_base[b]) = Len(c.base_constraints)
                    /\ Len(table_code.fill_ext[b]) = Len(c.ext_constraints)
                    /\ \A j \in DOMAIN c.base_constraints :
                          LET new_var == c.arena[c.arena[c.base_constraints[j]].lhs]
                          IN  /\ table_code.fill_base[b][j].col
                                   = starts[k].base + (j - 1)
                              /\ new_var.kind = "Input" /\ new_var.base
                              /\ new_var.idx = table_code.fill_base[b][j].col
                    /\ \A j \in DOMAIN c.ext_constraints :
                          LET new_var == c.arena[c.arena[c.ext_constraints[j]].lhs]
                          IN  /\ table_code.fill_ext[b][j].col
                                   = starts[k].ext + (j - 1)
                              /\ new_var.kind = "Input" /\ ~new_var.base
                              /\ new_var.idx = table_code.fill_ext[b][j].col
          /\ FilledColumns(table_code.fill_base)
                = NumBaseColumns .. (NumBaseColumns + table_code.BASE_WIDTH - 1)
          /\ FilledColumns(table_code.fill_ext)
                = NumExtColumns .. (NumExtColumns + table_code.EXT_WIDTH - 1)

C15_Witness ==
    /\ main_pc = "write"
    /\ \A b \in BucketNames :
          /\ Len(lowering[b].base_constraints) >= 1
          /\ Len(lowering[b].ext_constraints) >= 1

(***************************************************************************)
(* C16.  Handed a memory layout that is not integral, neither entry point  *)
(* returns an instruction sequence: the layout is rejected.                *)
(* The entry points (tasm.rs 109-131 and 150-174) bind the pointers and    *)
(* decode; they return the instructions for the layout whose challenges    *)
(* lie inside the scratch page as for any other.                           *)
(***************************************************************************)
LayoutChallengesInPage == [LayoutPageFirst EXCEPT !.challenges_ptr = 1]

NotIntegral(m, layout) ==
    IF m = "static" THEN ~is_integral(layout) ELSE ~dynamic_is_integral(layout)

C16_NonIntegralLayoutRejected ==
    pc = "evaluate_rust" =>
        \A m \in Modes :
            \A layout \in {LayoutPageFirst, LayoutPageLast, LayoutChallengesInPage} :
                NotIntegral(m, layout) =>
                    LET returned == Returned(m, layout)
                    IN  \A i \in 1 .. Len(returned) : returned[i].kind # "Instruction"

(***************************************************************************)
(* C17.  A bucket in which two distinct nodes share an id aborts every     *)
(* codegen pass, the native one and the assembly one, before the pass      *)
(* emits any code for the bucket.                                          *)
(* The native pass asserts unique ids first (main.rs 408-410); the         *)
(* assembly pass (tasm.rs 325-342) holds no such assertion.                *)
(***************************************************************************)
C17_DuplicateIdsAbort ==
    (/\ call.fn = "tokenize_circuits"
     /\ outcome # NotCalled
     /\ ~has_unique_ids(CallArena(call.arena), call.constraints))
        => outcome.panic /\ outcome.tokens = <<>>

(***************************************************************************)
(* C18.  substitution_rule_to_code aborts for a circuit whose root is not  *)
(* a subtraction and for a subtraction whose left operand is not an        *)
(* input; for a rule of the shape input - expression the code it returns   *)
(* evaluates, at every point, to the value of the right operand.           *)
(***************************************************************************)
WellShaped(A, circuit) ==
    /\ A[circuit].kind = "BinaryOperation"
    /\ A[circuit].op = "Sub"
    /\ A[A[circuit].lhs].kind = "Input"

C18_FillCodeOfRule ==
    (call.fn = "substitution_rule_to_code" /\ outcome # NotCalled) =>
        LET circuit == call.circuit
        IN  IF WellShaped(RuleArena, circuit)
            THEN /\ outcome.panic = ""
                 /\ \A seed \in 0 .. MaxSeed :
                        RunExpression(outcome.code, <<>>, seed)
                            = Value(RuleArena, RuleArena[circuit].rhs, seed)
            ELSE /\ outcome.panic # ""
                 /\ outcome.code = [t |-> "none"]

\* the rule x - (a*b*a + a*b*e) has been turned into code
C18_Witness ==
    /\ call.fn = "substitution_rule_to_code"
    /\ call.circuit = 16
    /\ outcome # NotCalled
    /\ outcome.panic = ""
    /\ outcome.code.t = "binop"

(***************************************************************************)
(* C19.  For a proof whose stream decodes, Proof::padded_height returns    *)
(* Ok(2^k) if and only if the stream holds exactly one log_2_padded_height *)
(* item, of value k, and an error if it holds none or more than one.       *)
(* 1 << k is computed in usize (proof.rs 40): for k of the width of usize  *)
(* or more the call panics or returns 2^(k mod width).                     *)
(***************************************************************************)
C19_PaddedHeight ==
    (call.fn = "padded_height" /\ outcome # NotCalled /\ call.proof.decodes) =>
        LET items == call.proof.items
            heights == {i \in DOMAIN items : items[i].kind = "Log2PaddedHeight"}
        IN  IF Cardinality(heights) = 1
            THEN \A i \in heights : outcome = Ok(2 ^ items[i].value)
            ELSE outcome.t = "Err"

(***************************************************************************)
(* C20.  In dynamic mode the prologue pops the four row pointers and       *)
(* stores them in the first four words of the scratch page: current base   *)
(* row at offset 0, current extension row at 1, next base row at 2, next   *)
(* extension row at 3.  From then on the four words keep these values,     *)
(* every load from a row reads the row's pointer from its word, and every  *)
(* write_mem targets the page start plus 4 or more.                        *)
(***************************************************************************)
RowLists == {"CurrBaseRow", "CurrExtRow", "NextBaseRow", "NextExtRow"}

RowPointerOffset(list) ==
    CASE list = "CurrBaseRow" -> 0
      [] list = "CurrExtRow" -> 1
      [] list = "NextBaseRow" -> 2
      [] list = "NextExtRow" -> 3

RowPointer(list) ==
    CASE list = "CurrBaseRow" -> point.static_memory_layout.curr_base_row_ptr
      [] list = "CurrExtRow" -> point.static_memory_layout.curr_ext_row_ptr
      [] list = "NextBaseRow" -> point.static_memory_layout.next_base_row_ptr
      [] list = "NextExtRow" -> point.static_memory_layout.next_ext_row_ptr

\* the instruction at position i of the running program addresses a row
AddressesRow(i) ==
    /\ i > Len(write_row_pointers_to_ram)
    /\ i <= Len(raw_instructions[mode])
    /\ raw_instructions[mode][i].op = "push"
    /\ raw_instructions[mode][i].list \in RowLists

C20_RowPointers ==
    (pc = "run" /\ mode = "dynamic") =>
        LET page_start == point.static_memory_layout.free_mem_page_ptr
            prologue == Len(write_row_pointers_to_ram)
            running == vm.status = "running"
        IN  /\ vm.ip = prologue + 1 => vm.op_stack = <<>>
            /\ vm.ip > prologue =>
                  \A list \in RowLists :
                      RamRead(vm.ram, page_start + RowPointerOffset(list))
                          = RowPointer(list)
            /\ (running /\ vm.ip > prologue /\ vm.program[vm.ip].op = "write_mem")
                  => Top(vm.op_stack, 0) >= page_start + 4
            /\ (running /\ AddressesRow(vm.ip - 1)) =>
                  /\ vm.program[vm.ip].op = "read_mem"
                  /\ vm.program[vm.ip].arg = 1
                  /\ Top(vm.op_stack, 0)
                       = page_start + RowPointerOffset(raw_instructions[mode][vm.ip - 1].list)
            /\ (running /\ AddressesRow(vm.ip - 2)) =>
                  Top(vm.op_stack, 1) = RowPointer(raw_instructions[mode][vm.ip - 2].list)

\* a dynamic run of four non-empty buckets is loading from the next
\* extension row, with constraints already written
C20_Witness ==
    /\ pc = "run"
    /\ mode = "dynamic"
    /\ AllBucketsNonEmpty
    /\ vm.status = "running"
    /\ AddressesRow(vm.ip - 1)
    /\ raw_instructions[mode][vm.ip - 1].list = "NextExtRow"
    /\ \E i \in 1 .. vm.ip :
          i > Len(write_row_pointers_to_ram) /\ vm.program[i].op = "write_mem"

(***************************************************************************)
(* C21.  In the text the native backend emits for a bucket, every name     *)
(* node_<id> is declared before it is referred to: the declarations come   *)
(* in descending order of the count of the node declared, all counts being *)
(* greater than 1; a declaration of a node of count k refers by name only  *)
(* to nodes of count greater than k and to nodes of count k declared       *)
(* before it; and every name the constraint arrays refer to is declared.   *)
(***************************************************************************)
RECURSIVE NamesIn(_)
NamesIn(e) ==
    CASE e.t = "name" -> {e.id}
      [] e.t = "binop" -> NamesIn(e.lhs) \cup NamesIn(e.rhs)
      [] OTHER -> {}

\* the count of the bucket's node of the given id
CountOfId(A, rc, id) ==
    rc[CHOOSE h \in UNION {Subtree(A, call.constraints[i]) : i \in DOMAIN call.constraints} :
           A[h].id = id]

NativeCall ==
    /\ call.fn = "tokenize_circuits"
    /\ call.backend = "rust"
    /\ outcome # NotCalled
    /\ ~outcome.panic

C21_DeclaredBeforeUse ==
    NativeCall =>
        LET A == CallArena(call.arena)
            rc == ref_count(A, call.constraints)
            decls == outcome.code.shared_declarations
            arrays == outcome.code.base_constraints \o outcome.code.ext_constraints
            count(i) == CountOfId(A, rc, decls[i].name)
        IN  /\ \A i \in DOMAIN decls :
                  /\ count(i) > 1
                  /\ \A j \in DOMAIN decls : j < i => count(j) >= count(i)
                  /\ \A id \in NamesIn(decls[i].evaluation) :
                        /\ \E j \in DOMAIN decls : j < i /\ decls[j].name = id
                        /\ \/ CountOfId(A, rc, id) > count(i)
                           \/ CountOfId(A, rc, id) = count(i)
            /\ \A k \in DOMAIN arrays :
                  \A id \in NamesIn(arrays[k]) :
                      \E j \in DOMAIN decls : decls[j].name = id

\* node_5 (count 3) is declared, then node_6 (count 2) from it; and in
\* another call node_8 is declared from node_6 of its own count
C21_Witness ==
    /\ NativeCall
    /\ LET decls == outcome.code.shared_declarations
       IN  /\ Len(decls) >= 2
           /\ decls[1].name \in NamesIn(decls[2].evaluation)
           /\ \E k \in DOMAIN outcome.code.base_constraints :
                 decls[2].name \in NamesIn(outcome.code.base_constraints[k])

(***************************************************************************)
(* C22.  In the assembly emitted for one bucket, every load of the scratch *)
(* slot of a shared node comes after a store to that slot in the code of   *)
(* the same bucket; the store is the only store to the slot in the         *)
(* bucket's code and it stores the value the instruction before it         *)
(* computed for that node.                                                 *)
(***************************************************************************)
NodeIds == {SingleRowArena[h].id : h \in DOMAIN SingleRowArena}
               \cup {DualRowArena[h].id : h \in DOMAIN DualRowArena}

C22_StoredBeforeLoaded ==
    CodeGenerated =>
        \A m \in Modes :
            \A k \in 1 .. 4 :
                \A id \in NodeIds :
                    LET stores == TasmStores(m, k, id)
                    IN  \A p \in TasmLoads(m, k, id) :
                            /\ \E q \in stores : q < p
                            /\ Cardinality(stores) = 1
                            /\ \A q \in stores : raw_instructions[m][q - 1].of = id

\* node 5 is stored and loaded in the initial bucket and, as another node,
\* in the transition bucket
C22_Witness ==
    /\ CodeGenerated
    /\ \A m \in Modes :
          /\ TasmLoads(m, 1, 5) # {}
          /\ TasmLoads(m, 3, 5) # {}
          /\ TasmStores(m, 3, 5) # {}

(***************************************************************************)
(* C23.  The assembly backend starts every bucket with an empty scope:     *)
(* after the pass over a bucket the scope holds the nodes stored in that   *)
(* bucket's code and no others.  The counter of output elements is kept    *)
(* from bucket to bucket: after k buckets it is the number of constraints  *)
(* of these buckets, and the constraints written so far were given the     *)
(* output indices 0, 1, ... once each.                                     *)
(***************************************************************************)
\* where the code emitted so far stores output element n
OutputStores(m, n) ==
    {p \in 1 .. Len(raw_instructions[m]) - 1 :
        /\ raw_instructions[m][p]
             = PushAddr("FreeMemPage", EXTENSION_DEGREE * (OUT_ARRAY_OFFSET + n))
        /\ raw_instructions[m][p + 1].op = "write_mem"}

RECURSIVE ConstraintsOfBuckets(_)
ConstraintsOfBuckets(k) ==
    IF k = 0 THEN 0 ELSE Len(batch[Buckets[k]]) + ConstraintsOfBuckets(k - 1)

BucketsTokenized ==
    /\ pc \in {"tokenize_circuits", "prepare_return_values"}
    /\ bucket_ix > 1

C23_ScopeAndCounter ==
    BucketsTokenized =>
        LET k == bucket_ix - 1
            total == ConstraintsOfBuckets(k)
        IN  /\ backend.scope = {id \in NodeIds : TasmStores(mode, k, id) # {}}
            /\ backend.elements_written = total
            /\ \A n \in 0 .. total - 1 : Cardinality(OutputStores(mode, n)) = 1
            /\ \A n \in total .. total + MaxLen : OutputStores(mode, n) = {}

\* the transition bucket's pass stored node 5 after the initial bucket's pass
\* had stored its own node 5, and the fourth bucket has been written
C23_Witness ==
    /\ pc = "prepare_return_values"
    /\ AllBucketsNonEmpty
    /\ TasmStores(mode, 1, 5) # {}
    /\ TasmStores(mode, 3, 5) # {}
    /\ 5 \notin backend.scope
    /\ backend.elements_written >= 4

(***************************************************************************)
(* C24.  For a bucket whose nodes have unique ids, with the reference      *)
(* counts of that bucket, no assertion of the shared-node passes fires in  *)
(* either backend: the pass of a count never reaches a node outside the    *)
(* scope whose count is greater, and no id enters the scope twice.  The    *)
(* buckets are those of constraints of degree 1 and more, on which the     *)
(* passes are the only code that can abort.                                *)
(***************************************************************************)
C24_AssertionsHold ==
    (/\ call.fn = "tokenize_circuits"
     /\ outcome # NotCalled
     /\ has_unique_ids(CallArena(call.arena), call.constraints)
     /\ \A i \in DOMAIN call.constraints :
            degree(CallArena(call.arena), call.constraints[i]) >= 1)
        => ~outcome.panic

\* the assembly passes of the counts 3 and 2 have stored the nodes 5 and 6
C24_Witness ==
    /\ call.fn = "tokenize_circuits"
    /\ call.backend = "tasm dynamic"
    /\ outcome # NotCalled
    /\ ~outcome.panic
    /\ {5, 6} \subseteq outcome.code.self.scope
    /\ Len(outcome.code.out) = 2 + Len(call.constraints)

(***************************************************************************)
(* C25.  Every write of the emitted code after the prologue is either the  *)
(* store of a shared node to the three words 3*id .. 3*id+2 of the free    *)
(* page, which lie below word 3*OUT_ARRAY_OFFSET, or the store of output   *)
(* element k to the words 3*(OUT_ARRAY_OFFSET+k) .. +2, which lie inside   *)
(* the words reserved for the output at the end of the scratch page: the   *)
(* slots of the nodes and the output array do not overlap.                 *)
(***************************************************************************)
\* the address the entry point of the running mode binds the free page to
FreeMemPage ==
    IF mode = "static" THEN point.static_memory_layout.free_mem_page_ptr
    ELSE point.static_memory_layout.free_mem_page_ptr + 4

WritingAfterPrologue ==
    /\ pc = "run"
    /\ vm.status = "running"
    /\ vm.program[vm.ip].op = "write_mem"
    /\ mode = "dynamic" => vm.ip > Len(write_row_pointers_to_ram)

StoresNode(first) ==
    \E id \in NodeIds :
        /\ first = FreeMemPage + 3 * id
        /\ 3 * id + 2 < 3 * OUT_ARRAY_OFFSET

StoresOutput(first) ==
    LET page_start == point.static_memory_layout.free_mem_page_ptr
    IN  \E k \in 0 .. ConstraintsOfBuckets(4) - 1 :
            /\ first = FreeMemPage + 3 * (OUT_ARRAY_OFFSET + k)
            /\ first >= page_start + MEM_PAGE_SIZE - Pow2(Log2OutWords)
            /\ first + 2 < page_start + MEM_PAGE_SIZE

C25_SlotsBelowOutput ==
    WritingAfterPrologue =>
        LET first == Top(vm.op_stack, 0)
        IN  /\ vm.program[vm.ip].arg = 3
            /\ StoresNode(first) \/ StoresOutput(first)
            /\ ~(StoresNode(first) /\ StoresOutput(first))

\* a node is being stored after an output element of an earlier bucket
C25_Witness ==
    /\ WritingAfterPrologue
    /\ mode = "dynamic"
    /\ StoresNode(Top(vm.op_stack, 0))
    /\ \E p \in 1 .. vm.ip - 1 :
          /\ vm.program[p].op = "push"
          /\ vm.program[p].arg = FreeMemPage + 3 * OUT_ARRAY_OFFSET
          /\ vm.program[p + 1].op = "write_mem"

(***************************************************************************)
(* C26.  store_ext_field_element(i) writes the three words 3i, 3i+1 and    *)
(* 3i+2 of the free page and no other word; the load of element i pushes   *)
(* the address of word 3i+2 and reads three words; and the load leaves on  *)
(* the stack the element the store took from it, coefficient by            *)
(* coefficient.                                                            *)
(***************************************************************************)
C26_StoreLoadRoundTrip ==
    (call.fn = "store_and_load" /\ outcome # NotCalled) =>
        LET i == call.element_index
            page == LayoutPageFirst.free_mem_page_ptr
            machine == StoreAndLoadVm(i, call.xfe)
            load_at == Len(store_ext_field_element(i)) + 1
        IN  /\ outcome.stored.status = "running"
            /\ outcome.stored.ip = load_at
            /\ outcome.stored.op_stack = <<>>
            /\ DOMAIN outcome.stored.ram = {page + 3 * i, page + 3 * i + 1, page + 3 * i + 2}
            /\ machine.program[load_at].op = "push"
            /\ machine.program[load_at].arg = page + 3 * i + 2
            /\ machine.program[load_at + 1].op = "read_mem"
            /\ machine.program[load_at + 1].arg = 3
            /\ outcome.loaded.status = "running"
            /\ outcome.loaded.ram = outcome.stored.ram
            /\ outcome.loaded.op_stack = machine.op_stack

\* an element of three different coefficients, stored to the first word
\* of the output array and loaded again
C26_Witness ==
    /\ call.fn = "store_and_load"
    /\ call.element_index = OUT_ARRAY_OFFSET
    /\ call.xfe = <<1, 2, 3>>
    /\ outcome # NotCalled
    /\ outcome.loaded.op_stack = <<3, 2, 1>>

(***************************************************************************)
(* C27.  The fill code assigns the new column of every substitution of the *)
(* initial, consistency and terminal bucket in every row of the table, the *)
(* last included, base and extension columns alike, and the new column of  *)
(* every transition substitution in every row but the last.                *)
(* The loop of the single-row extension columns (main.rs 898) runs over    *)
(* 0..nrows - 1 and leaves the last row out.                               *)
(***************************************************************************)
C27_EveryRowFilled ==
    (TableCodeGenerated /\ ~table_code.panic) =>
        \A nrows \in 1 .. MaxRows :
            \A b \in BucketNames :
                LET expected == IF b = "tran" THEN 0 .. nrows - 2 ELSE 0 .. nrows - 1
                IN  /\ table_code.fill_base[b] # <<>> =>
                          rows_of_loop(table_code.base_loops[b], nrows) = expected
                    /\ table_code.fill_ext[b] # <<>> =>
                          rows_of_loop(table_code.ext_loops[b], nrows) = expected

(***************************************************************************)
(* C28.  The expression that fills a new column c reads, from the row      *)
(* being filled, only columns of index below c: the fill code of a new     *)
(* base column mentions base columns only, those of the current row below  *)
(* c, and the fill code of a new extension column mentions extension       *)
(* columns of the current row below c only.  The columns mentioned are     *)
(* original columns or columns of rules the lowering made earlier.         *)
(***************************************************************************)
RECURSIVE InputsIn(_)
InputsIn(e) ==
    CASE e.t = "input" -> {[cur |-> e.cur, base |-> e.base, idx |-> e.idx]}
      [] e.t = "binop" -> InputsIn(e.lhs) \cup InputsIn(e.rhs)
      [] OTHER -> {}

LoweringBucket(i) == main_pc = "lower_to_degree" /\ lower_ix = i

\* the loop has been left for the i-th bucket, and no constraint and no rule of
\* the bucket has a degree above the target
LoweredBucket(i) ==
    /\ main_pc # "lower_to_degree" \/ lower_ix > i
    /\ LET c == lowering[Buckets[i]]
       IN  multicircuit_degree(
               c.arena, c.multicircuit \o c.base_constraints \o c.ext_constraints)
             <= target_degree

NativeBucketCall ==
    /\ call.fn = "tokenize_circuits"
    /\ call.backend = "rust"
    /\ call.constraints # <<>>
    /\ outcome # NotCalled

\* C30: the native backend aborts the compilation of a non-empty bucket that
\* holds a constraint of degree 0 or less; when it does not abort, it has emitted
\* one degree bound per constraint, base constraints first, each for a degree of
\* at least 1: interpolant_degree - zerofier_degree for degree 1 and
\* interpolant_degree * d - zerofier_degree for a degree d above 1
C30_DegreeBoundsOfPositiveDegrees ==
    NativeBucketCall =>
        LET A == CallArena(call.arena)
            chained == chained_constraints(A, call.constraints)
            bounds == outcome.code.degree_bounds
        IN  /\ (\E i \in DOMAIN chained : degree(A, chained[i]) < 1)
                  => outcome.panic
            /\ ~outcome.panic =>
                  /\ Len(bounds) = Len(chained)
                  /\ \A i \in DOMAIN bounds :
                        LET d == degree(A, chained[i])
                        IN  /\ d >= 1
                            /\ bounds[i].d = d
                            /\ d = 1 => bounds[i].form
                                          = "interpolant_degree - zerofier_degree"
                            /\ d > 1 => bounds[i].form
                                          = "interpolant_degree * d - zerofier_degree"

\* the backend has aborted on a bucket of a product and a bare constant
C30_Witness ==
    /\ NativeBucketCall
    /\ call.arena = "SingleRow"
    /\ call.constraints = <<6, 4>>
    /\ degree(SingleRowArena, 6) = 2
    /\ SingleRowArena[4].kind = "BConstant"
    /\ degree(SingleRowArena, 4) = 0
    /\ outcome.panic

=============================================================================
